---- MODULE Spec2Model ----
(***************************************************************************)
(* A model of duppy, a dynamic DNS update service.                         *)
(*                                                                         *)
(* The update engine (Backend.update, src/duppy/backends.py), the DNS      *)
(* front-end (handle_nsupdate, src/duppy/dns_frontend.py) and the HTTP     *)
(* front-end (HttpFrontend, src/duppy/http_frontend.py, with the record    *)
(* codec and validation of src/duppy/records.py) are modelled as one state *)
(* machine that handles one request at a time. Every await of the code is  *)
(* one step; the backend's answers (success, failure, exception) are       *)
(* nondeterministic.                                                       *)
(*                                                                         *)
(* A second specification, SpecNet, runs two requests as asyncio tasks     *)
(* (a TCP connection, a datagram, an HTTP update or a direct engine call)  *)
(* that interleave at their awaits, with cancellation and transport loss.  *)
(* SpecLive adds a backend call that never returns and the fairness of the *)
(* event loop, SpecClose the closing of the response generator at its      *)
(* yield. SpecDns is handle_nsupdate alone; SpecMock and SpecSqlite are    *)
(* the record list of examples/duppy-mock.py and the SQLite transaction    *)
(* handles of src/duppy/backends.py.                                       *)
(*                                                                         *)
(* Names are sequences of one-character strings, so that the string tests  *)
(* of the code (equality, endswith, lower) are computed, not assumed.      *)
(***************************************************************************)
EXTENDS Integers, Sequences, FiniteSets, TLC

\* ------------------------------------------------------------------ bounds
MaxOps == 2
MaxRequests == 1
MaxHosts == 1

\* ------------------------------------------------------- program constants
MinimumTTL == 120
DefaultTTL == 300

\* ------------------------------------------------------------------- names
Apex == <<"z">>
Sub == <<"a", ".", "z">>
SubUpper == <<"A", ".", "z">>
ApexUpper == <<"Z">>
ApexDot == <<"z", ".">>
Alike == <<"a", "z">>
OtherZone == <<"y">>
Dot == <<".">>

LowerChar(c) ==
  IF c = "A" THEN "a" ELSE IF c = "Z" THEN "z" ELSE IF c = "Y" THEN "y"
  ELSE IF c = "B" THEN "b" ELSE c

Lower(s) == [k \in 1..Len(s) |-> LowerChar(s[k])]

EndsWith(s, suf) ==
  /\ Len(suf) <= Len(s)
  /\ SubSeq(s, Len(s) - Len(suf) + 1, Len(s)) = suf

\* dns.name.Name.to_text(): absolute names are printed with the final dot.
ToText(n) == n \o Dot

\* dns.name.Name.to_text(omit_final_dot=True)
ToTextOmit(n) == n

\* dns.name.Name.__eq__ compares labels without regard to case.
NameEq(a, b) == Lower(a) = Lower(b)

is_in_zone_drop_dot(zone, dns_name) ==
  \/ zone = dns_name
  \/ EndsWith(dns_name, zone)

is_in_zone(zone, dns_name) ==
  \/ zone = dns_name
  \/ EndsWith(dns_name, Dot \o zone)

\* ----------------------------------------------------------------- records
\* An RRset as the engine sees it: owner name, type, the deleting marker
\* ("None" for an add, else the class ANY or NONE), the TTL and the rdata
\* items (payload strings), and the numbers the rdata holds besides its
\* payload (the preference of an MX; <<>> if none).
RRset(name, rdtype, deleting, ttl, rd) ==
  [name |-> name, rdtype |-> rdtype, deleting |-> deleting, ttl |-> ttl, rd |-> rd,
   nums |-> <<>>]

AddA(n, ttl) == RRset(n, "A", "None", ttl, <<"d1">>)

\* An MX add with preference 10 and an SRV add with priority 10, weight 1
\* and port 2.
AddMX(n) == [RRset(n, "MX", "None", MinimumTTL, <<"d1">>) EXCEPT !.nums = <<10>>]
AddSRV(n) == [RRset(n, "SRV", "None", MinimumTTL, <<"d1">>) EXCEPT !.nums = <<10, 1, 2>>]
DelAll(n) == RRset(n, "ANY", "ANY", 0, <<>>)
DelRRset(n, t) == RRset(n, t, "ANY", 0, <<>>)
DelFrom(n, t, ttl) == RRset(n, t, "NONE", ttl, <<"d1">>)

\* A persisted record.
Rec(name, rdtype, ttl, data) ==
  [name |-> name, rdtype |-> rdtype, ttl |-> ttl, data |-> data]

\* The op sequences of length 0..n over a set of ops.
SeqsUpTo(S, n) == UNION {[1..k -> S] : k \in 0..n}

\* ------------------------------------------------------------------- state
VARIABLES
  front,     \* entry point of the current request: "engine", "dns", "http", "simple"
  pc,        \* position of the handler
  msg,       \* the request as received (front-end specific record)
  zone,      \* zone of the request, as the code holds it
  jupd,      \* HTTP: the JSON update list handed to _do_updates
  updates,   \* the op sequence (RRsets) handed to the apply loop
  idx,       \* index of the next op of the apply loop
  dbT,       \* transaction handle: Unbound, NoneH or a positive handle
  changes,   \* number of successful ops
  ok,        \* success flag of the apply loop
  error,     \* the saved exception ("none" if none)
  result,    \* outcome of Backend.update: "none", "returned", "raised"
  resp,      \* response of the front-end ("none" until answered)
  db,        \* persisted records
  snap,      \* records as they were when the transaction started
  before,    \* records as they were when the request arrived
  calls,     \* the backend calls of the current request, in order
  nreq       \* number of requests received so far

vars == <<front, pc, msg, zone, jupd, updates, idx, dbT, changes, ok, error, result,
          resp, db, snap, before, calls, nreq>>

\* The state of the concurrent requests (second specification, SpecNet).
VARIABLES
  task,      \* per task: its kind, input, position and the locals of its handler
  store,     \* the backend: committed records and the open transactions
  yields     \* the responses handle_nsupdate has yielded for the current message

nvars == <<task, store, yields>>

Unbound == -1
NoneH == 0

\* A backend without open transactions and with the given committed records.
NoStore == [committed |-> {}, tx |-> <<>>, last |-> NoneH]

NoMsg == [kind |-> "none"]

\* A response: an RCODE or an HTTP status, and the body where there is one.
\* A response: the status or RCODE, the body (by kind) and, for a JSON array
\* body, its entries.
Answer(code, body) == [code |-> code, body |-> body, json |-> <<>>]

\* A JSON value of a response array: an update object as it was submitted,
\* or the two-element array [status, update object].
JObject(u) == [shape |-> "object", status |-> "", val |-> u]
JPair(st, u) == [shape |-> "pair", status |-> st, val |-> u]

NoResp == Answer("none", "")

\* `yield response(...)`: one more response is handed to the consumer.
Yielded_Dropped(n) == n

Yielded(n) == n + 1

\* One entry of the call log.
Call(op, h, k, res, silent, z, n, ttl, t, d) ==
  [op |-> op, h |-> h, k |-> k, res |-> res, silent |-> silent, zone |-> z,
   name |-> n, ttl |-> ttl, rdtype |-> t, data |-> d, ints |-> <<>>]

\* Python's None among the integer parameters of an add.
Null == -1

\* i1, i2, i3 of SQLBackend.add_to_rrset: the SRV branch assigns i1 three
\* times, so that i1 is left with the port.
SqlAddInts(r) ==
  IF r.rdtype = "MX" THEN <<r.nums[1], Null, Null>>
  ELSE IF r.rdtype = "SRV" THEN <<r.nums[3], Null, Null>>
  ELSE <<Null, Null, Null>>

\* p1, p2, p3 of the DNS validation loop: `p1 = p2 = p3 = 0`, then the
\* fields of an MX or SRV rdata.
DnsAddInts(upd) ==
  IF upd.rdtype = "MX" THEN <<upd.nums[1], 0, 0>>
  ELSE IF upd.rdtype = "SRV" THEN <<upd.nums[1], upd.nums[2], upd.nums[3]>>
  ELSE <<0, 0, 0>>

\* The type and the rdata a mutation method is given: delete_all_rrsets works
\* on the name alone, delete_rrset on name and type, the other two on name,
\* type and rdata.
CallType(method, r) == IF method = "delete_all_rrsets" THEN "" ELSE r.rdtype

CallData(method, r) ==
  IF method \in {"add_to_rrset", "delete_from_rrset"} /\ Len(r.rd) > 0
  THEN r.rd[1] ELSE ""

Mutations == {"add_to_rrset", "delete_all_rrsets", "delete_rrset", "delete_from_rrset"}

Outcomes == {"ok", "fail", "raise"}

\* --------------------------------------------------- backend record effects
\* Backend.delete_all_rrsets .. add_to_rrset, by their documented effect.
Apply(method, records, name, rdtype, ttl, data) ==
  CASE method = "add_to_rrset" -> records \cup {Rec(name, rdtype, ttl, data)}
    [] method = "delete_all_rrsets" -> {r \in records : r.name # name}
    [] method = "delete_rrset" ->
         {r \in records : r.name # name \/ r.rdtype # rdtype}
    [] method = "delete_from_rrset" ->
         {r \in records : r.name # name \/ r.rdtype # rdtype \/ r.data # data}
    [] OTHER -> records

CountCalls(ops) == Cardinality({k \in 1..Len(calls) : calls[k].op \in ops})

CountOk(ops) ==
  Cardinality({k \in 1..Len(calls) : calls[k].op \in ops /\ calls[k].res = "ok"})

\* ------------------------------------------------------ engine: decisions
\* Backend.update picks the backend method from the deleting marker and the
\* type (RFC 2136 section 2.5).
DispatchMethod(r) ==
  IF r.deleting # "None"
  THEN IF r.deleting = "ANY" /\ r.rdtype = "ANY" THEN "delete_all_rrsets"
       ELSE IF r.deleting = "ANY" THEN "delete_rrset"
       ELSE IF r.deleting = "NONE" THEN "delete_from_rrset"
       ELSE "none"
  ELSE "add_to_rrset"

\* `if changes:` before notify_changed.
NotifyNeeded_Always(ch) == TRUE

NotifyNeeded(ch) == ch > 0

\* `ok = await self.notify_changed(...) and ok`
NotifyFold(res, okflag) == res /\ okflag

\* `if ok and await self.transaction_commit(...)`: commit is attempted only
\* while the success flag holds.
CommitAllowed_Always(okflag) == TRUE

CommitAllowed(okflag) == okflag

\* `dbT = None` is executed only after a commit that returned true.
HandleAfterCommit_Keep(h, committed) == h

HandleAfterCommit(h, committed) == IF committed THEN NoneH ELSE h

\* `finally: if dbT is not None:`
RollbackNeeded_Never(h) == FALSE

RollbackNeeded(h) == h # NoneH

\* `silent=(not changes)`
Silent(ch) == ch = 0

\* The loop goes on after a successful op and stops at the first failure;
\* after the loop `if changes:` selects notify_changed.
LoopNext_NoBreak(k, n, okflag, ch) ==
  IF k < n THEN "e_loop"
  ELSE IF NotifyNeeded(ch) THEN "e_notify" ELSE "e_commit"

LoopNext(k, n, okflag, ch) ==
  IF okflag /\ k < n THEN "e_loop"
  ELSE IF NotifyNeeded(ch) THEN "e_notify" ELSE "e_commit"

\* `zone_str = zone.to_text(omit_final_dot=True).lower()`
ZoneStr(z) == Lower(ToTextOmit(z))

\* ------------------------------------------------------- engine: the steps
\* The exceptions a backend method raises: one of its own, or a KeyError.
BackendRaises == {"BackendError", "KeyError"}

\* dbT = await self.transaction_start(zone_str)
EngineStart ==
  /\ pc = "e_start"
  /\ \E o \in {"ok", "none", "raise"}, x \in BackendRaises :
       /\ calls' = Append(calls,
            Call("transaction_start", IF o = "ok" THEN nreq ELSE NoneH, 0, o,
                 FALSE, ZoneStr(zone), <<>>, 0, "", ""))
       /\ IF o = "raise"
          THEN /\ error' = x
               /\ pc' = "e_finally"
               /\ UNCHANGED <<dbT, changes, ok, idx, snap>>
          ELSE /\ dbT' = IF o = "ok" THEN nreq ELSE NoneH
               /\ changes' = 0
               /\ ok' = TRUE
               /\ idx' = 1
               /\ snap' = db
               /\ pc' = LoopNext(0, Len(updates), TRUE, 0)
               /\ UNCHANGED error
  /\ UNCHANGED <<front, msg, zone, jupd, updates, result, resp, db, before, nreq>>
  /\ UNCHANGED nvars

\* One iteration of `for r in updates:`.
EngineApply ==
  /\ pc = "e_loop"
  /\ idx <= Len(updates)
  /\ LET r == updates[idx]
         m == DispatchMethod(r)
         n == ToTextOmit(r.name)
     IN \E o \in Outcomes, x \in BackendRaises :
          /\ calls' = Append(calls,
               [Call(m, dbT, idx, o, FALSE, ZoneStr(zone), n, r.ttl,
                     CallType(m, r), CallData(m, r))
                  EXCEPT !.ints = IF m = "add_to_rrset" THEN SqlAddInts(r) ELSE <<>>])
          /\ IF o = "raise"
             THEN /\ error' = x
                  /\ pc' = "e_finally"
                  /\ UNCHANGED <<ok, changes, idx, db>>
             ELSE /\ ok' = (o = "ok")
                  /\ changes' = IF o = "ok" THEN changes + 1 ELSE changes
                  /\ db' = IF o = "ok"
                           THEN Apply(m, db, n, r.rdtype, r.ttl,
                                      IF Len(r.rd) > 0 THEN r.rd[1] ELSE "")
                           ELSE db
                  /\ idx' = idx + 1
                  /\ pc' = LoopNext(idx, Len(updates), o = "ok",
                                    IF o = "ok" THEN changes + 1 ELSE changes)
                  /\ UNCHANGED error
  /\ UNCHANGED <<front, msg, zone, jupd, updates, dbT, result, resp, snap, before, nreq>>
  /\ UNCHANGED nvars

\* ok = await self.notify_changed(dbT, zone_str) and ok
EngineNotify ==
  /\ pc = "e_notify"
  /\ \E o \in Outcomes, x \in BackendRaises :
       /\ calls' = Append(calls,
            Call("notify_changed", dbT, 0, o, FALSE, ZoneStr(zone), <<>>, 0, "", ""))
       /\ IF o = "raise"
          THEN /\ error' = x
               /\ pc' = "e_finally"
               /\ UNCHANGED ok
          ELSE /\ ok' = NotifyFold(o = "ok", ok)
               /\ pc' = "e_commit"
               /\ UNCHANGED error
  /\ UNCHANGED <<front, msg, zone, jupd, updates, idx, dbT, changes, result, resp,
                 db, snap, before, nreq>>
  /\ UNCHANGED nvars

\* `if ok and await self.transaction_commit(dbT, zone_str): dbT = None; return`
\* `else: raise Exception('Internal Error')`, with ok true.
EngineCommit ==
  /\ pc = "e_commit"
  /\ CommitAllowed(ok)
  /\ \E o \in Outcomes, x \in BackendRaises :
       /\ calls' = Append(calls,
            Call("transaction_commit", dbT, 0, o, FALSE, ZoneStr(zone), <<>>, 0, "", ""))
       /\ dbT' = HandleAfterCommit(dbT, o = "ok")
       /\ error' = IF o = "ok" THEN "none"
                   ELSE IF o = "fail" THEN "Exception" ELSE x
  /\ pc' = "e_finally"
  /\ UNCHANGED <<front, msg, zone, jupd, updates, idx, changes, ok, result, resp,
                 db, snap, before, nreq>>
  /\ UNCHANGED nvars

\* The same statement with ok false: no commit, raise Exception('Internal Error').
EngineRaise ==
  /\ pc = "e_commit"
  /\ ~CommitAllowed(ok)
  /\ error' = "Exception"
  /\ pc' = "e_finally"
  /\ UNCHANGED <<front, msg, zone, jupd, updates, idx, dbT, changes, ok, result, resp,
                 db, snap, before, calls, nreq>>
  /\ UNCHANGED nvars

\* `finally: if dbT is not None: await self.transaction_rollback(...)` and
\* then `if error: raise error`. A rollback that returns true restores the
\* records of the transaction's start; one that fails leaves them.
EngineFinally ==
  /\ pc = "e_finally"
  /\ dbT # Unbound
  /\ IF RollbackNeeded(dbT)
     THEN \E o \in Outcomes :
            /\ calls' = Append(calls,
                 Call("transaction_rollback", dbT, 0, o, Silent(changes),
                      ZoneStr(zone), <<>>, 0, "", ""))
            /\ db' = IF o = "ok" THEN snap ELSE db
            /\ error' = IF o = "raise" THEN "RollbackError" ELSE error
            /\ result' = IF o = "raise" \/ error # "none"
                         THEN "raised" ELSE "returned"
     ELSE /\ result' = IF error # "none" THEN "raised" ELSE "returned"
          /\ UNCHANGED <<calls, db, error>>
  /\ pc' = "e_done"
  /\ UNCHANGED <<front, msg, zone, jupd, updates, idx, dbT, changes, ok, resp, snap,
                 before, nreq>>
  /\ UNCHANGED nvars

\* transaction_start raised: dbT was never bound, and the finally clause's
\* test of dbT raises UnboundLocalError in place of the saved error.
EngineFinallyUnbound ==
  /\ pc = "e_finally"
  /\ dbT = Unbound
  /\ error' = "UnboundLocalError"
  /\ result' = "raised"
  /\ pc' = "e_done"
  /\ UNCHANGED <<front, msg, zone, jupd, updates, idx, dbT, changes, ok, resp, db,
                 snap, before, calls, nreq>>
  /\ UNCHANGED nvars

\* ------------------------------------------------- engine called directly
EngineNames == {Apex, Sub}

EngineOps ==
  {AddA(n, MinimumTTL) : n \in EngineNames}
    \cup {DelAll(Sub), DelRRset(Sub, "A"), DelFrom(Sub, "A", 0)}

\* The record sets that are passed on their own: an MX and an SRV add.
EngineTypeOps == {AddMX(Sub), AddSRV(Sub)}

\* A caller invokes Backend.update(cli, zone, updates).
EngineCall ==
  /\ pc = "idle"
  /\ nreq < MaxRequests
  /\ \E u \in SeqsUpTo(EngineOps, MaxOps) \cup {<<r>> : r \in EngineTypeOps} :
       /\ updates' = u
       /\ msg' = [kind |-> "engine", updates |-> u]
  /\ front' = "engine"
  /\ zone' = Apex
  /\ jupd' = <<>>
  /\ pc' = "e_start"
  /\ idx' = 0
  /\ dbT' = Unbound
  /\ changes' = 0
  /\ ok' = TRUE
  /\ error' = "none"
  /\ result' = "none"
  /\ resp' = NoResp
  /\ before' = db
  /\ snap' = db
  /\ calls' = <<>>
  /\ nreq' = nreq + 1
  /\ UNCHANGED db
  /\ UNCHANGED nvars

\* Backend.update has returned or raised to its caller.
EngineReturn ==
  /\ pc = "e_done"
  /\ front = "engine"
  /\ pc' = "done"
  /\ UNCHANGED <<front, msg, zone, jupd, updates, idx, dbT, changes, ok, error, result,
                 resp, db, snap, before, calls, nreq>>
  /\ UNCHANGED nvars

\* ------------------------------------------------------------ backend keys
\* The keys of the backend and the zones they are bound to (TEST_KEYS and
\* TEST_ZONES of the mock backend): k1 serves both zones, k2 only the other.
AllKeys == {"k1", "k2"}

\* The secrets are strings of characters; the first holds a "+", as base64
\* text does.
S1 == <<"s", "+", "1">>
S2 == <<"s", "2">>

SecretOf(k) == IF k = "k1" THEN S1 ELSE S2

\* MockBackend.get_keys: the keys of a known zone, nothing for any other name.
get_keys(z) ==
  IF z = Apex THEN {"k1"}
  ELSE IF z = OtherZone THEN {"k1", "k2"}
  ELSE {}

\* Backend.check_key_in_zone
check_key_in_zone(key, z) == key \in get_keys(z)

\* ---------------------------------------------------------- DNS front-end
\* dns.message.from_wire(data, keyring): a TSIG naming a key outside the
\* keyring raises UnknownTSIGKey, a signature that does not verify raises
\* dns.tsig.BadSignature; a message without TSIG decodes with had_tsig false.
FromWire(m, keyring) ==
  IF m.sig = "none" THEN "ok"
  ELSE IF m.key \notin keyring THEN "UnknownTSIGKey"
  ELSE IF m.sig = "bad" THEN "BadSignature"
  ELSE "ok"

\* The except clauses of handle_nsupdate.
ExceptRcode(exc) ==
  IF exc = "FormError" THEN "FORMERR"
  ELSE IF exc = "UnknownTSIGKey" THEN "REFUSED"
  ELSE IF exc = "UpdateRejected" THEN "NOTIMP"
  ELSE "SERVFAIL"

\* `if not msg.had_tsig or not await backend.check_key_in_zone(...)`
DnsAuthorized(m) ==
  /\ m.sig # "none"
  /\ check_key_in_zone(m.key, ToTextOmit(m.zone))

\* `elif msg.prerequisite:`
DnsHasPrereq_Ignored(m) == FALSE

DnsHasPrereq(m) == m.prereq

\* `if upd.ttl < frontend.minimum_ttl` for an add.
DnsTtlTooLow(upd) == upd.deleting = "None" /\ upd.ttl < MinimumTTL

\* `if upd.name == zone and upd.rdtype == dns.rdatatype.ANY`
DnsApexDelete_Off(z, upd) == FALSE

DnsApexDelete(z, upd) == NameEq(upd.name, z) /\ upd.rdtype = "ANY"

DnsSupportedTypes == {"A", "AAAA", "MX", "SRV", "TXT"}

\* The checks of one update RR, in the order of the code; the result is the
\* exception raised, or "ok".
DnsValidateOne_NoDeleteTtl(z, upd) ==
  IF ~is_in_zone(ToText(z), ToText(upd.name)) THEN "UpdateRejected"
  ELSE IF DnsTtlTooLow(upd) THEN "UpdateRejected"
  ELSE IF Len(upd.rd) > 0 /\ Len(upd.rd) # 1 THEN "UpdateRejected"
  ELSE IF Len(upd.rd) > 0 /\ upd.rdtype \notin DnsSupportedTypes THEN "UpdateRejected"
  ELSE IF DnsApexDelete(z, upd) THEN "UpdateRejected"
  ELSE "ok"

DnsValidateOne(z, upd) ==
  IF ~is_in_zone(ToText(z), ToText(upd.name)) THEN "UpdateRejected"
  ELSE IF DnsTtlTooLow(upd) THEN "UpdateRejected"
  ELSE IF upd.deleting # "None" /\ upd.ttl # 0 THEN "FormError"
  ELSE IF Len(upd.rd) > 0 /\ Len(upd.rd) # 1 THEN "UpdateRejected"
  ELSE IF Len(upd.rd) > 0 /\ upd.rdtype \notin DnsSupportedTypes THEN "UpdateRejected"
  ELSE IF DnsApexDelete(z, upd) THEN "UpdateRejected"
  ELSE "ok"

\* `for upd in msg.update:` raises at the first RR that fails a check.
DnsValidate_FirstOnly(z, ups) ==
  IF Len(ups) = 0 THEN "ok" ELSE DnsValidateOne(z, ups[1])

DnsValidate(z, ups) ==
  LET bad == {k \in 1..Len(ups) : DnsValidateOne(z, ups[k]) # "ok"}
  IN IF bad = {} THEN "ok"
     ELSE DnsValidateOne(z, ups[CHOOSE k \in bad : \A j \in bad : k <= j])

\* The branch of the apply loop taken for one RR.
DnsDispatch_MarkerOnly(upd) ==
  IF upd.deleting = "None" THEN "add_to_rrset"
  ELSE IF upd.deleting = "ANY" THEN "delete_all_rrsets"
  ELSE "delete_from_rrset"

DnsDispatch(upd) ==
  IF upd.deleting = "None" THEN "add_to_rrset"
  ELSE IF upd.deleting = "ANY" /\ upd.rdtype = "ANY" THEN "delete_all_rrsets"
  ELSE IF upd.deleting = "ANY" /\ upd.rdtype # "ANY" THEN "delete_rrset"
  ELSE IF upd.deleting = "NONE" THEN "delete_from_rrset"
  ELSE "none"

\* `name = upd.name.to_text(omit_final_dot=True).lower()`
DnsName(upd) == Lower(ToTextOmit(upd.name))

\* After the apply loop: `if changes:` selects notify_changed.
DnsLoopNext(k, n, okflag, ch) ==
  IF okflag /\ k < n THEN "d_loop"
  ELSE IF ch > 0 THEN "d_notify" ELSE "d_commit"

\* The update RRs of the modelled messages.
DnsOps ==
  {AddA(n, MinimumTTL) : n \in {Sub, Alike}}
    \cup {AddA(Sub, 60)}
    \cup {DelAll(Apex), DelAll(Sub), DelRRset(Sub, "A")}
    \cup {DelFrom(Sub, "A", 0), DelFrom(Sub, "A", 5), DelFrom(Alike, "A", 5)}

TsigCases ==
  {[sig |-> "none", key |-> "none"], [sig |-> "bad", key |-> "kx"],
   [sig |-> "bad", key |-> "k1"], [sig |-> "good", key |-> "k1"],
   [sig |-> "good", key |-> "k2"]}

DnsMsg(t, z, p, u) ==
  [kind |-> "dns", sig |-> t.sig, key |-> t.key, zone |-> z, prereq |-> p, update |-> u,
   opcode |-> "UPDATE", question |-> <<>>]

\* A message of another opcode: unsigned, with a question section.
Question(n, t) == [name |-> n, rdtype |-> t]

DnsOtherMsg(op, q) ==
  [kind |-> "dns", sig |-> "none", key |-> "none", zone |-> <<>>, prereq |-> FALSE,
   update |-> <<>>, opcode |-> op, question |-> q]

DnsQuestions ==
  {<<>>, <<Question(Sub, "SOA"), Question(Sub, "SOA")>>}
    \cup {<<Question(n, t)>> : n \in {Apex, Sub, Alike}, t \in {"SOA", "A"}}

DnsOtherMsgs ==
  {DnsOtherMsg("QUERY", q) : q \in DnsQuestions}
    \cup {DnsOtherMsg("NOTIFY", <<Question(Apex, "SOA")>>)}

\* The messages: every op sequence under a valid signature of a key of the
\* zone, short updates under every TSIG case and with prerequisites, and one
\* update that names the zone in upper case.
DnsFewOps == {AddA(Sub, MinimumTTL), DelAll(Apex), DelFrom(Sub, "A", 5)}

\* The RRs that are sent on their own: one add of each further record type,
\* with one rdata and the minimum TTL, an add with two rdata, an add at the
\* apex and one at a name in upper case.
DnsTypeOps ==
  {RRset(Sub, t, "None", MinimumTTL, <<"d1">>) : t \in {"AAAA", "CNAME", "TXT", "NS"}}
    \cup {AddMX(Sub), AddSRV(Sub)}
    \cup {RRset(Sub, "A", "None", MinimumTTL, <<"d1", "d2">>)}
    \cup {AddA(Apex, MinimumTTL), AddA(SubUpper, MinimumTTL)}

DnsMsgs ==
  {DnsMsg([sig |-> "good", key |-> "k1"], Apex, FALSE, u) :
     u \in SeqsUpTo(DnsOps, MaxOps)}
    \cup {DnsMsg([sig |-> "good", key |-> "k1"], Apex, FALSE, <<r>>) : r \in DnsTypeOps}
    \cup {DnsMsg(t, Apex, p, u) :
            t \in TsigCases, p \in BOOLEAN, u \in SeqsUpTo(DnsFewOps, 1)}
    \cup {DnsMsg(t, OtherZone, FALSE, u) :
            t \in TsigCases, u \in SeqsUpTo({AddA(Sub, MinimumTTL)}, 1)}
    \cup {DnsMsg([sig |-> "good", key |-> "k1"], ApexUpper, FALSE,
                  <<AddA(Sub, MinimumTTL)>>)}
    \cup DnsOtherMsgs

\* A datagram or a TCP frame arrives and handle_nsupdate starts.
DnsReceive ==
  /\ pc = "idle"
  /\ nreq < MaxRequests
  /\ \E m \in DnsMsgs :
       /\ msg' = m
       /\ zone' = m.zone
  /\ front' = "dns"
  /\ jupd' = <<>>
  /\ updates' = <<>>
  /\ pc' = "d_decode"
  /\ idx' = 0
  /\ dbT' = NoneH
  /\ changes' = 0
  /\ ok' = TRUE
  /\ error' = "none"
  /\ result' = "none"
  /\ resp' = NoResp
  /\ before' = db
  /\ snap' = db
  /\ calls' = <<>>
  /\ nreq' = nreq + 1
  /\ UNCHANGED db
  /\ yields' = 0
  /\ UNCHANGED <<task, store>>

\* get_all_keys, from_wire, the branch on the opcode (a message that is
\* neither QUERY nor UPDATE leaves the handler without any yield), the TSIG
\* and key-in-zone test, the prerequisite test.
DnsDecode ==
  /\ pc = "d_decode"
  /\ LET exc == FromWire(msg, AllKeys)
     IN IF exc # "ok"
        THEN /\ error' = exc
             /\ yields' = Yielded(yields)
             /\ resp' = Answer(ExceptRcode(exc), "")
             /\ pc' = "d_finally"
        ELSE IF msg.opcode = "QUERY"
        THEN /\ pc' = "d_query"
             /\ UNCHANGED <<resp, error, yields>>
        ELSE IF msg.opcode # "UPDATE"
        THEN /\ pc' = "d_finally"
             /\ UNCHANGED <<resp, error, yields>>
        ELSE IF ~DnsAuthorized(msg)
        THEN /\ yields' = Yielded(yields)
             /\ resp' = Answer("REFUSED", "")
             /\ pc' = "d_finally"
             /\ UNCHANGED error
        ELSE IF DnsHasPrereq(msg)
        THEN /\ yields' = Yielded(yields)
             /\ resp' = Answer("NOTIMP", "")
             /\ pc' = "d_finally"
             /\ UNCHANGED error
        ELSE /\ pc' = "d_validate"
             /\ UNCHANGED <<resp, error, yields>>
  /\ UNCHANGED <<front, msg, zone, jupd, updates, idx, dbT, changes, ok, result, db,
                 snap, before, calls, nreq>>
  /\ UNCHANGED <<task, store>>

\* One entry of the map get_all_zones returns: the zone under the key
\* "name" (hasName) or under another key, and its "type" ("" if it has none).
ZoneEntry(hasName, z, t) == [hasName |-> hasName, name |-> z, type |-> t]

\* The results of get_all_zones in the repository: MockBackend's dict with
\* "name" and "hostname"; SQLBackend's dict with "zone", "hostname", "type",
\* "ttl", "serial" (for a zone row of type SOA, or of another type);
\* SQLBackend's list [] when no query is configured.
ZoneMaps ==
  {[kind |-> "mock", dict |-> TRUE,
    entries |-> <<ZoneEntry(TRUE, Apex, ""), ZoneEntry(TRUE, OtherZone, "")>>],
   [kind |-> "sql_soa", dict |-> TRUE, entries |-> <<ZoneEntry(FALSE, Apex, "SOA")>>],
   [kind |-> "sql_a", dict |-> TRUE, entries |-> <<ZoneEntry(FALSE, Apex, "A")>>],
   [kind |-> "sql_unset", dict |-> FALSE, entries |-> <<>>]}

RECURSIVE SoaLookup(_, _)
\* `for _, zone in (...).items():` with its else clause: "found", "NXDOMAIN"
\* or the exception raised.
SoaLookup(entries, q) ==
  IF entries = <<>> THEN "NXDOMAIN"
  ELSE LET zn == Head(entries)
       IN IF zn.type # "" /\ zn.type # q.rdtype THEN SoaLookup(Tail(entries), q)
          ELSE IF ~zn.hasName THEN "KeyError"
          ELSE IF is_in_zone(zn.name, ToTextOmit(q.name)) THEN "found"
          ELSE SoaLookup(Tail(entries), q)

\* The answer to one SOA question under a zone map.
QueryOutcome(zm, q) ==
  IF ~zm.dict THEN "AttributeError" ELSE SoaLookup(zm.entries, q)

QueryAnswer(out) ==
  IF out = "found" THEN Answer("NOERROR", "AA SOA")
  ELSE IF out = "NXDOMAIN" THEN Answer("NXDOMAIN", "")
  ELSE Answer(ExceptRcode(out), "")

\* The QUERY branch: the question count, the question type (whose log line
\* reads `msg.qestion` and raises AttributeError), then the zone lookup.
DnsQuery ==
  /\ pc = "d_query"
  /\ LET qs == msg.question
     IN IF Len(qs) # 1
        THEN /\ yields' = Yielded(yields)
             /\ resp' = Answer("NOTIMP", "")
             /\ UNCHANGED <<error, calls>>
        ELSE IF qs[1].rdtype # "SOA"
        THEN /\ error' = "AttributeError"
             /\ yields' = Yielded(yields)
             /\ resp' = Answer(ExceptRcode("AttributeError"), "")
             /\ UNCHANGED calls
        ELSE \E zm \in ZoneMaps :
               LET out == QueryOutcome(zm, qs[1])
               IN /\ calls' = Append(calls,
                       Call("get_all_zones", NoneH, 0, zm.kind, FALSE, <<>>,
                            ToTextOmit(qs[1].name), 0, "", ""))
                  /\ yields' = Yielded(yields)
                  /\ resp' = QueryAnswer(out)
                  /\ error' = IF out \in {"found", "NXDOMAIN"} THEN error ELSE out
  /\ pc' = "d_finally"
  /\ UNCHANGED <<front, msg, zone, jupd, updates, idx, dbT, changes, ok, result, db,
                 snap, before, nreq>>
  /\ UNCHANGED <<task, store>>

\* The validation loop over msg.update; nothing is applied before every RR
\* has passed.
DnsValidateStep ==
  /\ pc = "d_validate"
  /\ LET exc == DnsValidate(msg.zone, msg.update)
     IN IF exc # "ok"
        THEN /\ error' = exc
             /\ yields' = Yielded(yields)
             /\ resp' = Answer(ExceptRcode(exc), "")
             /\ pc' = "d_finally"
             /\ UNCHANGED updates
        ELSE /\ updates' = msg.update
             /\ pc' = "d_start"
             /\ UNCHANGED <<resp, error, yields>>
  /\ UNCHANGED <<front, msg, zone, jupd, idx, dbT, changes, ok, result, db, snap,
                 before, calls, nreq>>
  /\ UNCHANGED <<task, store>>

\* dbT = await backend.transaction_start(zone)
DnsStart ==
  /\ pc = "d_start"
  /\ \E o \in {"ok", "none", "raise"} :
       /\ calls' = Append(calls,
            Call("transaction_start", IF o = "ok" THEN nreq ELSE NoneH, 0, o,
                 FALSE, ZoneStr(zone), <<>>, 0, "", ""))
       /\ IF o = "raise"
          THEN /\ error' = "BackendError"
               /\ yields' = Yielded(yields)
               /\ resp' = Answer(ExceptRcode("BackendError"), "")
               /\ pc' = "d_finally"
               /\ UNCHANGED <<dbT, ok, idx, snap>>
          ELSE /\ dbT' = IF o = "ok" THEN nreq ELSE NoneH
               /\ ok' = FALSE
               /\ idx' = 1
               /\ snap' = db
               /\ pc' = IF Len(updates) > 0 THEN "d_loop" ELSE "d_commit"
               /\ UNCHANGED <<error, resp, yields>>
  /\ UNCHANGED <<front, msg, zone, jupd, updates, changes, result, db, before, nreq>>
  /\ UNCHANGED <<task, store>>

\* One iteration of `for upd, p1, p2, p3, data in updates:`.
DnsApply ==
  /\ pc = "d_loop"
  /\ idx <= Len(updates)
  /\ LET upd == updates[idx]
         m == DnsDispatch(upd)
         n == DnsName(upd)
     IN \E o \in Outcomes :
          /\ calls' = Append(calls,
               [Call(m, dbT, idx, o, FALSE, ZoneStr(zone), n, upd.ttl,
                     CallType(m, upd), CallData(m, upd))
                  EXCEPT !.ints = IF m = "add_to_rrset" THEN DnsAddInts(upd) ELSE <<>>])
          /\ IF o = "raise"
             THEN /\ error' = "BackendError"
                  /\ yields' = Yielded(yields)
                  /\ resp' = Answer(ExceptRcode("BackendError"), "")
                  /\ pc' = "d_finally"
                  /\ UNCHANGED <<ok, changes, idx, db>>
             ELSE /\ ok' = (o = "ok")
                  /\ changes' = IF o = "ok" THEN changes + 1 ELSE changes
                  /\ db' = IF o = "ok"
                           THEN Apply(m, db, n, upd.rdtype, upd.ttl,
                                      IF Len(upd.rd) > 0 THEN upd.rd[1] ELSE "")
                           ELSE db
                  /\ idx' = idx + 1
                  /\ pc' = DnsLoopNext(idx, Len(updates), o = "ok",
                                       IF o = "ok" THEN changes + 1 ELSE changes)
                  /\ UNCHANGED <<error, resp, yields>>
  /\ UNCHANGED <<front, msg, zone, jupd, updates, dbT, result, snap, before, nreq>>
  /\ UNCHANGED <<task, store>>

\* ok = await backend.notify_changed(dbT, zone) and ok
DnsNotify ==
  /\ pc = "d_notify"
  /\ \E o \in Outcomes :
       /\ calls' = Append(calls,
            Call("notify_changed", dbT, 0, o, FALSE, ZoneStr(zone), <<>>, 0, "", ""))
       /\ IF o = "raise"
          THEN /\ error' = "BackendError"
               /\ yields' = Yielded(yields)
               /\ resp' = Answer(ExceptRcode("BackendError"), "")
               /\ pc' = "d_finally"
               /\ UNCHANGED ok
          ELSE /\ ok' = ((o = "ok") /\ ok)
               /\ pc' = "d_commit"
               /\ UNCHANGED <<error, resp, yields>>
  /\ UNCHANGED <<front, msg, zone, jupd, updates, idx, dbT, changes, result, db, snap,
                 before, nreq>>
  /\ UNCHANGED <<task, store>>

\* `if ok: if await backend.transaction_commit(dbT, zone): yield NOERROR`
\* `else: yield SERVFAIL`; an exception of the commit reaches the bare except.
DnsCommit ==
  /\ pc = "d_commit"
  /\ ok
  /\ \E o \in Outcomes :
       /\ calls' = Append(calls,
            Call("transaction_commit", dbT, 0, o, FALSE, ZoneStr(zone), <<>>, 0, "", ""))
       /\ yields' = Yielded(yields)
       /\ resp' = Answer(IF o = "ok" THEN "NOERROR" ELSE "SERVFAIL", "")
       /\ error' = IF o = "raise" THEN "BackendError" ELSE error
       /\ pc' = IF o = "raise" THEN "d_finally" ELSE "d_yielded"
  /\ UNCHANGED <<front, msg, zone, jupd, updates, idx, dbT, changes, ok, result, db,
                 snap, before, nreq>>
  /\ UNCHANGED <<task, store>>

\* The generator is resumed after the yield of the commit's answer:
\* `dbT = None`, whatever the commit returned.
DnsResume ==
  /\ pc = "d_yielded"
  /\ dbT' = NoneH
  /\ pc' = "d_finally"
  /\ UNCHANGED <<front, msg, zone, jupd, updates, idx, changes, ok, error, result, resp,
                 db, snap, before, calls, nreq>>
  /\ UNCHANGED nvars

\* `else: yield response(msg, code=dns.rcode.SERVFAIL)` with ok false.
DnsFail ==
  /\ pc = "d_commit"
  /\ ~ok
  /\ yields' = Yielded(yields)
  /\ resp' = Answer("SERVFAIL", "")
  /\ pc' = "d_finally"
  /\ UNCHANGED <<front, msg, zone, jupd, updates, idx, dbT, changes, ok, error, result,
                 db, snap, before, calls, nreq>>
  /\ UNCHANGED <<task, store>>

\* `finally: if dbT is not None: await backend.transaction_rollback(...)`
DnsFinally ==
  /\ pc = "d_finally"
  /\ IF dbT # NoneH
     THEN \E o \in Outcomes :
            /\ calls' = Append(calls,
                 Call("transaction_rollback", dbT, 0, o, changes = 0,
                      ZoneStr(zone), <<>>, 0, "", ""))
            /\ db' = IF o = "ok" THEN snap ELSE db
            /\ error' = IF o = "raise" THEN "RollbackError" ELSE error
     ELSE UNCHANGED <<calls, db, error>>
  /\ pc' = "done"
  /\ UNCHANGED <<front, msg, zone, jupd, updates, idx, dbT, changes, ok, result, resp,
                 snap, before, nreq>>
  /\ UNCHANGED nvars

\* ------------------------------------------------------------ record codec
Absent == "absent"
NoTtl == -1
NoName == <<>>

\* One JSON update object; a missing member is Absent (NoTtl, NoName).
NoNum == -1

JsonOp(op, n, t, ttl, d) ==
  [op |-> op, dns_name |-> n, type |-> t, ttl |-> ttl, data |-> d,
   priority |-> NoNum, weight |-> NoNum, port |-> NoNum]

\* A JSON update object with the members "priority", "weight" and "port".
JsonOpNums(op, n, t, ttl, d, p, w, pt) ==
  [op |-> op, dns_name |-> n, type |-> t, ttl |-> ttl, data |-> d,
   priority |-> p, weight |-> w, port |-> pt]

V4Literals == {"d1", "d2"}
V6Literals == {"d6"}

\* dns.rdata._rdata_classes as records.py registers it; a type without an
\* entry resolves to the library's own class, which has no from_json.
CodecClass(rdtype) ==
  CASE rdtype = "SOA" -> "SOA"
    [] rdtype = "A" -> "A"
    [] rdtype = "AAAA" -> "AAAA"
    [] rdtype = "CNAME" -> "CNAME"
    [] rdtype = "MX" -> "MX"
    [] rdtype = "SRV" -> "SOA"
    [] OTHER -> "stock"

\* rdata_from_json: the from_json of the class found; the result is the
\* exception raised or the payload.
rdata_from_json(rdtype, obj) ==
  LET cls == CodecClass(rdtype)
      fail(exc) == [err |-> exc, data |-> "", nums |-> <<>>]
  IN CASE cls = "stock" -> fail("AttributeError")
       [] cls = "SOA" -> fail("KeyError")
       [] cls = "MX" /\ obj.priority = NoNum -> fail("KeyError")
       [] obj.data = Absent -> fail("KeyError")
       [] cls = "A" /\ obj.data \notin V4Literals -> fail("SyntaxError")
       [] cls = "AAAA" /\ obj.data \notin V6Literals -> fail("SyntaxError")
       [] cls = "MX" -> [err |-> "none", data |-> obj.data, nums |-> <<obj.priority>>]
       [] OTHER -> [err |-> "none", data |-> obj.data, nums |-> <<>>]

\* obj.get("ttl", 0)
JsonTtl(obj) == IF obj.ttl = NoTtl THEN 0 ELSE obj.ttl

\* obj.get("type", "ANY")
JsonType(obj) == IF obj.type = Absent THEN "ANY" ELSE obj.type

\* The deleting marker rrset_from_json derives from a JSON object.
JsonDeleting(obj) ==
  IF obj.op = "delete"
  THEN IF JsonType(obj) = "ANY" \/ obj.data \in {Absent, ""} THEN "ANY" ELSE "NONE"
  ELSE "None"

NoRRset == RRset(NoName, "", "None", 0, <<>>)

\* rrset_from_json: the exception raised, or the RRset built. An RRset
\* without rdata keeps the TTL 0.
rrset_from_json(obj) ==
  IF obj.dns_name = NoName \/ obj.op = Absent
  THEN [err |-> "KeyError", r |-> NoRRset]
  ELSE IF JsonDeleting(obj) = "ANY"
  THEN [err |-> "none",
        r |-> RRset(obj.dns_name, JsonType(obj), "ANY", 0, <<>>)]
  ELSE LET rd == rdata_from_json(JsonType(obj), obj)
       IN IF rd.err # "none"
          THEN [err |-> rd.err, r |-> NoRRset]
          ELSE [err |-> "none",
                r |-> [RRset(obj.dns_name, JsonType(obj), JsonDeleting(obj),
                             JsonTtl(obj), <<rd.data>>) EXCEPT !.nums = rd.nums]]

\* `if r.ttl < minimum_ttl` for an add, in validate.
TtlTooLow(r) == r.deleting = "None" /\ r.ttl < MinimumTTL

\* `if r.name == zone and r.rdtype == dns.rdatatype.ANY`, in validate.
ApexDelete(z, r) == NameEq(r.name, z) /\ r.rdtype = "ANY"

\* The checks validate makes on one record, in the order of the code.
ValidateOne(z, r) ==
  IF ~is_in_zone(ToText(z), ToText(r.name)) THEN "Exception"
  ELSE IF TtlTooLow(r) THEN "Exception"
  ELSE IF r.deleting # "None" /\ r.ttl # 0 THEN "FormError"
  ELSE IF ApexDelete(z, r) THEN "Exception"
  ELSE "ok"

\* validate: the exception of the first record that fails, or "ok".
validate(z, rs) ==
  LET bad == {k \in 1..Len(rs) : ValidateOne(z, rs[k]) # "ok"}
  IN IF bad = {} THEN "ok"
     ELSE ValidateOne(z, rs[CHOOSE k \in bad : \A j \in bad : k <= j])

\* --------------------------------------------------------- HTTP front-end
\* `[records.rrset_from_json(update) for update in updates]`: the exception
\* of the first object that fails, or "none".
ConvertError(js) ==
  LET bad == {k \in 1..Len(js) : rrset_from_json(js[k]).err # "none"}
  IN IF bad = {} THEN "none"
     ELSE rrset_from_json(js[CHOOSE k \in bad : \A j \in bad : k <= j]).err

Converted(js) == [k \in 1..Len(js) |-> rrset_from_json(js[k]).r]

\* The outcome of _do_updates before it calls the engine: "ValueError" and
\* "KeyError" are answered 400 by _do_updates itself, any other exception
\* leaves it.
DoUpdatesCheck(z, js) ==
  IF Len(js) < 1 THEN "ValueError"
  ELSE IF ConvertError(js) # "none" THEN ConvertError(js)
  ELSE validate(z, Converted(js))

\* The status an exception leads to in update_handler.
UpdateStatus(exc) ==
  IF exc = "PermissionError" THEN "403"
  ELSE IF exc \in {"KeyError", "ValueError"} THEN "400"
  ELSE "500"

\* The JSON body of a failure in update_handler: {"error": str(e)} for the
\* exceptions caught by name, {"error": true} under the bare except.
UpdateBody(exc) ==
  IF exc \in {"PermissionError", "KeyError", "ValueError"}
  THEN "error_text" ELSE "error_true"

\* The status an exception leads to in simple_handler (after _do_updates
\* has turned its own KeyError and ValueError into 400).
SimpleStatus(exc, inner) ==
  IF exc = "PermissionError" THEN "403"
  ELSE IF inner /\ exc \in {"KeyError", "ValueError"} THEN "400"
  ELSE "500"

\* The plain-text body of the simple endpoint for a failure status.
SimpleBody(code) == IF code = "403" THEN "badauth" ELSE "911"

\* A member that the request does not hold, and a JSON "key" that is not a
\* string.
NoKey == <<"absent">>
NonString == <<"null">>

\* `data.get('key', request.query.get('key', request.headers.get(...)))`
SelectAuth_HeaderFirst(m) ==
  IF m.header # NoKey THEN m.header
  ELSE IF m.queryKey # NoKey THEN m.queryKey
  ELSE IF m.bodyKey # NoKey THEN m.bodyKey
  ELSE <<>>

SelectAuth(m) ==
  IF m.bodyKey # NoKey THEN m.bodyKey
  ELSE IF m.queryKey # NoKey THEN m.queryKey
  ELSE IF m.header # NoKey THEN m.header
  ELSE <<>>

StartsWith(s, pre) ==
  /\ Len(pre) <= Len(s)
  /\ SubSeq(s, 1, Len(pre)) = pre

\* str.strip(): the blanks at both ends are dropped.
Strip(a) ==
  LET solid == {k \in 1..Len(a) : a[k] # " "}
  IN IF solid = {} THEN <<>>
     ELSE SubSeq(a, CHOOSE k \in solid : \A j \in solid : k <= j,
                    CHOOSE k \in solid : \A j \in solid : j <= k)

\* `auth.split(' ', 1)[1]`: what follows the first blank.
AfterFirstBlank(a) ==
  LET blanks == {k \in 1..Len(a) : a[k] = " "}
  IN SubSeq(a, (CHOOSE k \in blanks : \A j \in blanks : k <= j) + 1, Len(a))

\* `auth.replace(' ', '+')`
PlusForBlank(a) == [k \in 1..Len(a) |-> IF a[k] = " " THEN "+" ELSE a[k]]

BearerPrefix == <<"b", "e", "a", "r", "e", "r", " ">>

\* `if auth.lower().startswith('bearer '): auth = auth.split(' ', 1)[1].strip()`
\* `else: auth = auth.replace(' ', '+').strip()`
AuthToken(a) ==
  IF StartsWith(Lower(a), BearerPrefix)
  THEN Strip(AfterFirstBlank(a))
  ELSE Strip(PlusForBlank(a))

Secrets(z) == {SecretOf(k) : k \in get_keys(z)}

\* `if not auth or auth not in keys.values()`
SecretRejected(tok, z) == tok = <<>> \/ tok \notin Secrets(z)

\* The authorization part of update_handler: the exception raised, or "ok".
UpdateAuth(m) ==
  IF get_keys(m.zone) = {} THEN "PermissionError"
  ELSE IF SelectAuth(m) = NonString THEN "AttributeError"
  ELSE IF SecretRejected(AuthToken(SelectAuth(m)), m.zone) THEN "PermissionError"
  ELSE "ok"

\* The authorization part of simple_handler: the exception raised, or "ok".
SimpleAuth(m) ==
  IF m.scheme # "basic" THEN "PermissionError"
  ELSE IF m.cred = "badbase64" THEN "binascii.Error"
  ELSE IF m.cred = "nocolon" THEN "ValueError"
  ELSE IF get_keys(m.zone) = {} THEN "PermissionError"
  ELSE IF SecretRejected(m.secret, m.zone) THEN "PermissionError"
  ELSE "ok"

IsV6(ip) == ip \in V6Literals

SelectIps(ips, keep6) ==
  SelectSeq(ips, LAMBDA ip : ip # "" /\ (IsV6(ip) <=> keep6))

\* The address lists of the simple endpoint.
MyIpv6_GivenOnly(m) ==
  IF m.offline THEN <<>>
  ELSE IF Len(m.myipv6) > 0 /\ m.myipv6[1] # "" THEN m.myipv6
  ELSE <<>>

MyIpv6(m) ==
  IF m.offline THEN <<>>
  ELSE IF Len(m.myipv6) > 0 /\ m.myipv6[1] # "" THEN m.myipv6
  ELSE SelectIps(m.myip, TRUE)

MyIps(m) == IF m.offline THEN <<>> ELSE SelectIps(m.myip, FALSE)

\* The update objects of one hostname and one family.
FamilyOps(host, rtype, iplist, ttl) ==
  IF Len(iplist) = 0
  THEN <<JsonOp("delete", host, rtype, NoTtl, Absent)>>
  ELSE [k \in 1..Len(iplist) |-> JsonOp("add", host, rtype, ttl, iplist[k])]

RECURSIVE SimpleUpdates(_, _)
\* The update list simple_handler builds, hostname by hostname.
SimpleUpdates(hosts, m) ==
  IF hosts = <<>> THEN <<>>
  ELSE FamilyOps(Head(hosts), "A", MyIps(m),
                 IF m.ttl = NoTtl THEN DefaultTTL ELSE m.ttl)
         \o FamilyOps(Head(hosts), "AAAA", MyIpv6(m),
                      IF m.ttl = NoTtl THEN DefaultTTL ELSE m.ttl)
         \o SimpleUpdates(Tail(hosts), m)

\* The modelled requests.
NoKeysZone == <<"q">>

JsonOps ==
  {JsonOp("add", n, "A", MinimumTTL, "d1") : n \in {Sub, Alike}}
    \cup {JsonOp("add", Sub, "A", 60, "d1"),
          JsonOp("add", Sub, "A", NoTtl, "d1"),
          JsonOp("delete", Apex, Absent, NoTtl, Absent),
          JsonOp("delete", Sub, Absent, NoTtl, Absent),
          JsonOp("delete", Sub, "A", NoTtl, Absent),
          JsonOp("delete", Sub, "A", NoTtl, "d1"),
          JsonOp("delete", Sub, "A", 5, "d1")}

\* The ways of passing a secret: <<body key, query key, Authorization>>.
Bearer(tok) == <<"B", "e", "a", "r", "e", "r", " ">> \o tok

WrongSecret == <<"x">>

CredCases ==
  {<<NoKey, NoKey, NoKey>>, <<S1, NoKey, NoKey>>,
   <<NoKey, S1, NoKey>>, <<NoKey, NoKey, Bearer(S1)>>,
   <<NoKey, NoKey, S1>>, <<WrongSecret, S1, NoKey>>,
   <<S2, NoKey, NoKey>>, <<<<>>, NoKey, NoKey>>,
   <<NonString, NoKey, NoKey>>,
   <<WrongSecret, NoKey, Bearer(S1)>>, <<NoKey, WrongSecret, S1>>,
   <<<<>>, S1, NoKey>>, <<NoKey, <<"s", " ", "1">>, NoKey>>,
   <<NoKey, NoKey, <<"b", "e", "a", "r", "e", "r", " ", " ">> \o S1 \o <<" ">>>>,
   <<NoKey, NoKey, Bearer(<<"s", " ", "1">>)>>}

UpdateMsg(z, c, u) ==
  [kind |-> "http", zone |-> z, bodyKey |-> c[1], queryKey |-> c[2],
   header |-> c[3], updates |-> u]

\* The requests: every update list under the zone's secret in the body,
\* short lists under every way of passing (or not passing) a secret, and one
\* update each that names the zone in upper case and with a trailing dot.
JsonFewOps ==
  {JsonOp("add", Sub, "A", MinimumTTL, "d1"),
   JsonOp("delete", Apex, Absent, NoTtl, Absent)}

\* The ops that are sent on their own: one well-formed add of each record
\* type the documentation lists, with the members it asks for, an MX without
\* "priority", and an NS; deletes of further types with and without "data",
\* a delete with "data" alone; an add at the apex and one at a name in upper
\* case.
JsonTypeOps ==
  {JsonOp("add", Apex, "A", MinimumTTL, "d1"),
   JsonOp("add", SubUpper, "A", MinimumTTL, "d1"),
   JsonOp("add", Sub, "AAAA", MinimumTTL, "d6"),
   JsonOp("add", Sub, "CNAME", MinimumTTL, "d1"),
   JsonOpNums("add", Sub, "MX", MinimumTTL, "d1", 10, NoNum, NoNum),
   JsonOp("add", Sub, "MX", MinimumTTL, "d1"),
   JsonOpNums("add", Sub, "SRV", MinimumTTL, "d1", 10, 1, 2),
   JsonOp("add", Sub, "TXT", MinimumTTL, "d1"),
   JsonOp("add", Sub, "NS", MinimumTTL, "d1"),
   JsonOp("delete", Sub, "CNAME", NoTtl, "d1"),
   JsonOpNums("delete", Sub, "MX", NoTtl, "d1", 10, NoNum, NoNum),
   JsonOp("delete", Sub, "TXT", NoTtl, "d1"),
   JsonOp("delete", Sub, "TXT", NoTtl, Absent),
   JsonOp("delete", Sub, Absent, NoTtl, "d1"),
   JsonOp("replace", Sub, "A", MinimumTTL, "d1"),
   JsonOp(Absent, Sub, "A", MinimumTTL, "d1")}

UpdateMsgs ==
  {UpdateMsg(Apex, <<S1, NoKey, NoKey>>, u) : u \in SeqsUpTo(JsonOps, MaxOps)}
    \cup {UpdateMsg(Apex, <<S1, NoKey, NoKey>>, <<o>>) : o \in JsonTypeOps}
    \cup {UpdateMsg(Apex, c, u) : c \in CredCases, u \in SeqsUpTo(JsonFewOps, 1)}
    \cup {UpdateMsg(z, c, u) :
            z \in {NoKeysZone, OtherZone}, c \in CredCases,
            u \in SeqsUpTo({JsonOp("add", Sub, "A", MinimumTTL, "d1")}, 1)}
    \cup {UpdateMsg(z, <<S1, NoKey, NoKey>>,
                     <<JsonOp("add", Sub, "A", MinimumTTL, "d1")>>) :
            z \in {ApexUpper, ApexDot}}

BasicCases ==
  {[scheme |-> "none", cred |-> "", zone |-> NoName, secret |-> <<>>],
   [scheme |-> "bearer", cred |-> "", zone |-> NoName, secret |-> <<>>],
   [scheme |-> "basic", cred |-> "badbase64", zone |-> NoName, secret |-> <<>>],
   [scheme |-> "basic", cred |-> "nocolon", zone |-> NoName, secret |-> <<>>],
   [scheme |-> "basic", cred |-> "pair", zone |-> Apex, secret |-> S1],
   [scheme |-> "basic", cred |-> "pair", zone |-> Apex, secret |-> S2],
   [scheme |-> "basic", cred |-> "pair", zone |-> Apex, secret |-> <<>>],
   [scheme |-> "basic", cred |-> "pair", zone |-> NoKeysZone, secret |-> S1]}

SimpleMsg(b, h, ip4, ip6, ttl, off) ==
  [kind |-> "simple", scheme |-> b.scheme, cred |-> b.cred, zone |-> b.zone,
   secret |-> b.secret, hostnames |-> h, myip |-> ip4, myipv6 |-> ip6,
   ttl |-> ttl, offline |-> off]

SimpleMsgs ==
  {SimpleMsg(b, h, ip4, ip6, ttl, off) :
     b \in BasicCases,
     h \in UNION {[1..k -> {Sub, Alike}] : k \in 1..MaxHosts},
     ip4 \in {<<"missing">>, <<"d1">>, <<"d1", "d6">>},
     ip6 \in {<<"">>, <<"d6">>, <<"", "d6">>},
     ttl \in {NoTtl, 60},
     off \in BOOLEAN}

\* An HTTP request arrives at update_handler or simple_handler.
HttpReceive ==
  /\ pc = "idle"
  /\ nreq < MaxRequests
  /\ \E m \in UpdateMsgs \cup SimpleMsgs :
       /\ msg' = m
       /\ front' = m.kind
  /\ zone' = <<>>
  /\ jupd' = <<>>
  /\ updates' = <<>>
  /\ pc' = "h_auth"
  /\ idx' = 0
  /\ dbT' = Unbound
  /\ changes' = 0
  /\ ok' = TRUE
  /\ error' = "none"
  /\ result' = "none"
  /\ resp' = NoResp
  /\ before' = db
  /\ snap' = db
  /\ calls' = <<>>
  /\ nreq' = nreq + 1
  /\ UNCHANGED db
  /\ UNCHANGED nvars

\* update_handler up to the call of _do_updates.
HttpUpdateAuth ==
  /\ pc = "h_auth"
  /\ front = "http"
  /\ LET exc == UpdateAuth(msg)
     IN IF exc # "ok"
        THEN /\ error' = exc
             /\ resp' = Answer(UpdateStatus(exc), UpdateBody(exc))
             /\ pc' = "done"
             /\ UNCHANGED <<zone, jupd>>
        ELSE /\ zone' = msg.zone
             /\ jupd' = msg.updates
             /\ pc' = "h_do"
             /\ UNCHANGED <<error, resp>>
  /\ UNCHANGED <<front, msg, updates, idx, dbT, changes, ok, result, db, snap,
                 before, calls, nreq>>
  /\ UNCHANGED nvars

\* simple_handler up to the call of _do_updates.
HttpSimpleAuth ==
  /\ pc = "h_auth"
  /\ front = "simple"
  /\ LET exc == SimpleAuth(msg)
     IN IF exc # "ok"
        THEN /\ error' = exc
             /\ resp' = Answer(SimpleStatus(exc, FALSE),
                               SimpleBody(SimpleStatus(exc, FALSE)))
             /\ pc' = "done"
             /\ UNCHANGED <<zone, jupd>>
        ELSE /\ zone' = msg.zone
             /\ jupd' = SimpleUpdates(msg.hostnames, msg)
             /\ pc' = "h_do"
             /\ UNCHANGED <<error, resp>>
  /\ UNCHANGED <<front, msg, updates, idx, dbT, changes, ok, result, db, snap,
                 before, calls, nreq>>
  /\ UNCHANGED nvars

\* The status of a failure, by endpoint; inner tells whether the exception
\* arose inside _do_updates.
FailAnswer(f, exc, inner) ==
  IF f = "http"
  THEN Answer(UpdateStatus(exc), UpdateBody(exc))
  ELSE Answer(SimpleStatus(exc, inner), SimpleBody(SimpleStatus(exc, inner)))

\* _do_updates up to the call of the engine: the list test, rrset_from_json
\* of every object, validate of all records.
HttpDoUpdates ==
  /\ pc = "h_do"
  /\ LET exc == DoUpdatesCheck(zone, jupd)
     IN IF exc # "ok"
        THEN /\ error' = exc
             /\ resp' = FailAnswer(front, exc, TRUE)
             /\ pc' = "done"
             /\ UNCHANGED updates
        ELSE /\ updates' = Converted(jupd)
             /\ pc' = "e_start"
             /\ UNCHANGED <<error, resp>>
  /\ UNCHANGED <<front, msg, zone, jupd, idx, dbT, changes, ok, result, db, snap,
                 before, calls, nreq>>
  /\ UNCHANGED nvars

\* `return (200, 'OK', updates)`: the third member is the list of update
\* objects as _do_updates received it.
DoUpdatesResult(js) == [k \in 1..Len(js) |-> JObject(js[k])]

\* The number of members of an update object (simple_handler builds adds
\* with op, dns_name, ttl, type, data and deletes with op, dns_name, type).
MemberCount(u) ==
  2 + (IF u.type # Absent THEN 1 ELSE 0) + (IF u.ttl # NoTtl THEN 1 ELSE 0)
    + (IF u.data # Absent THEN 1 ELSE 0)

RECURSIVE GoodLines(_, _, _)
\* The loop `for status, op in j:` over pairs: a new line "good <ip>" for
\* an add at a hostname other than the last one seen, else ",<ip>" is
\* appended to the last line. A line is the sequence of its addresses.
GoodLines(j, last, lines) ==
  IF j = <<>> THEN lines
  ELSE LET e == Head(j)
       IN IF e.status = "ok" /\ e.val.op = "add"
          THEN IF e.val.dns_name # last
               THEN GoodLines(Tail(j), e.val.dns_name, Append(lines, <<e.val.data>>))
               ELSE GoodLines(Tail(j), last,
                      [lines EXCEPT ![Len(lines)] = Append(@, e.val.data)])
          ELSE GoodLines(Tail(j), last, lines)

\* simple_handler after _do_updates returned 200: `for status, op in j:`
\* unpacks every entry into two targets. An entry that is an update object
\* is iterated over its keys, and raises ValueError unless it has two; the
\* loop stands outside the try, so the exception leaves the handler and the
\* web server answers 500.
SimpleSuccess(j) ==
  IF \E k \in 1..Len(j) : j[k].shape = "object" /\ MemberCount(j[k].val) # 2
  THEN [resp |-> Answer("500", "server_error"), err |-> "ValueError"]
  ELSE [resp |-> [Answer("200", "good") EXCEPT !.json = GoodLines(j, <<"-">>, <<>>)],
        err |-> "none"]

\* Backend.update has returned or raised to _do_updates: 200 with the
\* update list, or the handler's bare except.
HttpRespond ==
  /\ pc = "e_done"
  /\ front \in {"http", "simple"}
  /\ IF result # "returned"
     THEN /\ resp' = FailAnswer(front, error, TRUE)
          /\ UNCHANGED error
     ELSE IF front = "http"
     THEN /\ resp' = [Answer("200", "updates") EXCEPT !.json = DoUpdatesResult(jupd)]
          /\ UNCHANGED error
     ELSE LET out == SimpleSuccess(DoUpdatesResult(jupd))
          IN /\ resp' = out.resp
             /\ error' = out.err
  /\ pc' = "done"
  /\ UNCHANGED <<front, msg, zone, jupd, updates, idx, dbT, changes, ok,
                 result, db, snap, before, calls, nreq>>
  /\ UNCHANGED nvars

\* ------------------------------------------------------ end of a request
\* The request's task ends; its locals are gone, the records stay.
Release ==
  /\ pc = "done"
  /\ pc' = "idle"
  /\ front' = "none"
  /\ msg' = NoMsg
  /\ zone' = <<>>
  /\ jupd' = <<>>
  /\ updates' = <<>>
  /\ idx' = 0
  /\ dbT' = Unbound
  /\ changes' = 0
  /\ ok' = TRUE
  /\ error' = "none"
  /\ result' = "none"
  /\ resp' = NoResp
  /\ snap' = db
  /\ before' = db
  /\ calls' = <<>>
  /\ UNCHANGED <<db, nreq>>
  /\ yields' = 0
  /\ UNCHANGED <<task, store>>

\* --------------------------------------------------------- specification
\* The records the database holds when the server starts: none, or one
\* address record left by an earlier run.
InitialRecords == {{}, {Rec(Sub, "A", MinimumTTL, "d1")}}

Init ==
  /\ front = "none"
  /\ pc = "idle"
  /\ msg = NoMsg
  /\ zone = <<>>
  /\ jupd = <<>>
  /\ updates = <<>>
  /\ idx = 0
  /\ dbT = Unbound
  /\ changes = 0
  /\ ok = TRUE
  /\ error = "none"
  /\ result = "none"
  /\ resp = NoResp
  /\ db \in InitialRecords
  /\ snap = db
  /\ before = db
  /\ calls = <<>>
  /\ nreq = 0
  /\ task = <<>>
  /\ store = NoStore
  /\ yields = 0

Next ==
  \/ EngineCall
  \/ EngineStart
  \/ EngineApply
  \/ EngineNotify
  \/ EngineCommit
  \/ EngineRaise
  \/ EngineFinally
  \/ EngineFinallyUnbound
  \/ EngineReturn
  \/ DnsReceive
  \/ DnsDecode
  \/ DnsQuery
  \/ DnsValidateStep
  \/ DnsStart
  \/ DnsApply
  \/ DnsNotify
  \/ DnsCommit
  \/ DnsResume
  \/ DnsFail
  \/ DnsFinally
  \/ HttpReceive
  \/ HttpUpdateAuth
  \/ HttpSimpleAuth
  \/ HttpDoUpdates
  \/ HttpRespond
  \/ Release

Spec == Init /\ [][Next]_<<vars, nvars>>

\* ------------------------------------------------------ concurrent requests
\* The second specification runs two requests at a time, each in its own
\* task as the event loop runs them: the handler of a TCP connection
\* (TCPHandler.handle_tcp), the task of a UDP datagram
\* (DatagramProtocol.handle) or an HTTP update (Backend.update). A task is
\* suspended only in an await; a step runs from the end of one await to the
\* start of the next, so the code between two awaits is one step. The
\* messages are signed updates that pass validation.

\* ------------------------------------------------------------------ bounds
MaxMsgs == 2

Tasks == {1, 2}

\* dns.rcode.NOERROR and dns.rcode.SERVFAIL
NOERROR == 0
SERVFAIL == 2

\* struct.pack('!H', n) and struct.unpack('!H', b): two bytes, high byte first.
Pack_LittleEndian(n) == <<n % 256, n \div 256>>

Pack(n) == <<n \div 256, n % 256>>

Unpack(b) == b[1] * 256 + b[2]

\* A request message on the wire (its id) and its frame on a TCP stream, as
\* the client sends it: the length in two bytes, high byte first, then the
\* message.
Wire(id) == <<id>>

Frame(body) == <<Len(body) \div 256, Len(body) % 256>> \o body

\* The stream of a TCP connection: the frames of messages 1..n, then the end
\* of the stream or a cut-off frame.
RECURSIVE Frames(_)
Frames(n) == IF n = 0 THEN <<>> ELSE Frames(n - 1) \o Frame(Wire(n))

TcpStreams ==
  {Frames(n) \o tail : n \in 0..MaxMsgs, tail \in {<<>>, <<0>>, <<0, 1>>}}

\* response(msg, code): the id of the request and the rcode.
ResponseWire(data, rcode) == <<data[1], rcode>>

\* The address a task's updates carry, and the updates of its messages: two
\* adds.
TaskData(t) == IF t = 1 THEN "d1" ELSE "d2"

TaskUpdates(t) ==
  <<[AddA(Sub, MinimumTTL) EXCEPT !.rd = <<TaskData(t)>>],
    [AddA(Alike, MinimumTTL) EXCEPT !.rd = <<TaskData(t)>>]>>

\* The handle transaction_start gives to the k-th request of task t.
NewHandle(t, k) == t * (MaxMsgs + 2) + k

HandleSet == {NewHandle(t, k) : t \in Tasks, k \in 1..MaxMsgs + 1}

\* One entry of a task's call log.
NCall(op, h, res) == [op |-> op, h |-> h, res |-> res]

\* One write of an open transaction.
Write(m, r) ==
  [m |-> m, name |-> ToTextOmit(r.name), rdtype |-> r.rdtype, ttl |-> r.ttl,
   data |-> r.rd[1]]

\* transaction.commit(): the writes of the transaction reach the records.
RECURSIVE Replay(_, _)
Replay(records, writes) ==
  IF writes = <<>> THEN records
  ELSE Replay(Apply(writes[1].m, records, writes[1].name, writes[1].rdtype,
                    writes[1].ttl, writes[1].data),
              Tail(writes))

NoTx == [open |-> FALSE, writes |-> <<>>]

EmptyStore ==
  [committed |-> {}, tx |-> [h \in HandleSet |-> NoTx], last |-> NoneH]

\* A task as it is created.
NewTask(kind, stream) ==
  [kind |-> kind, inp |-> stream, size |-> 0, data |-> Wire(1), k |-> 1,
   pc |-> IF kind = "tcp" THEN "t_size" ELSE "keys",
   fin |-> "no", updates |-> <<>>, idx |-> 0, dbT |-> NoneH, changes |-> 0,
   ok |-> TRUE, error |-> "none", calls |-> <<>>, out |-> <<>>,
   cancelled |-> FALSE, gone |-> FALSE, goneAt |-> 0]

TcpTask(st) == [NewTask("tcp", st) EXCEPT !.k = 0, !.data = <<>>]

SingleTasks == {NewTask("udp", <<>>), [NewTask("http", <<>>) EXCEPT !.dbT = Unbound]}

\* The first task is any of the three kinds; the second one handles one
\* message.
InitialTasks == {TcpTask(st) : st \in TcpStreams} \cup SingleTasks

PeerTasks == {TcpTask(Frames(1))} \cup SingleTasks

\* The handle a task passes to the backend: its local dbT.
PassedHandle_Global(s) == store.last

PassedHandle(s) == s.dbT

\* The backend method a task is awaiting.
Awaited(s) ==
  CASE s.pc = "start" -> "transaction_start"
    [] s.pc = "loop" -> DispatchMethod(s.updates[s.idx])
    [] s.pc = "notify" -> "notify_changed"
    [] s.pc = "commit" -> "transaction_commit"
    [] s.pc = "rollback" -> "transaction_rollback"
    [] OTHER -> "none"

Logged(s, res) ==
  [s EXCEPT !.calls = Append(@, NCall(Awaited(s), PassedHandle(s), res))]

\* handle_nsupdate yields a response and its consumer writes it: the TCP
\* handler the length and the response, the datagram task the response.
Yield(s, rcode) ==
  LET wire == ResponseWire(s.data, rcode)
  IN IF s.kind = "tcp"
     THEN [s EXCEPT !.out = @ \o <<Pack(Len(wire)), wire>>]
     ELSE [s EXCEPT !.out = Append(@, wire)]

\* handle_nsupdate has ended: the TCP handler awaits the next length, the
\* datagram task ends; a generator that was closed has no consumer to go
\* back to.
GenDone(s) ==
  IF s.fin = "closed" THEN [s EXCEPT !.pc = "ended"]
  ELSE IF s.kind = "tcp" THEN [s EXCEPT !.pc = "t_size"]
  ELSE [s EXCEPT !.pc = "ended", !.fin = "done"]

\* update_handler answers: 200, or 500 from its bare except.
HttpEnd(s, code) == [s EXCEPT !.out = <<<<code>>>>, !.pc = "ended", !.fin = "done"]

\* The DNS handler's way out of a failure: the except clause, or the else
\* branch of `if ok:`, yields SERVFAIL, then the finally clause awaits
\* transaction_rollback if dbT is not None.
DnsFailed_NoFinally(s) == GenDone(Yield(s, SERVFAIL))

DnsFailed(s) ==
  LET y == Yield(s, SERVFAIL)
  IN IF y.dbT # NoneH THEN [y EXCEPT !.pc = "rollback"] ELSE GenDone(y)

\* Backend.update's way out of a failure: the exception is saved (or, for a
\* CancelledError, passes `except Exception`), then the finally clause.
EngineFailed_NoFinally(s, exc) == HttpEnd([s EXCEPT !.error = exc], 500)

EngineFailed(s, exc) ==
  LET e == [s EXCEPT !.error = exc]
  IN IF e.dbT = Unbound THEN HttpEnd([e EXCEPT !.error = "UnboundLocalError"], 500)
     ELSE IF RollbackNeeded(e.dbT) THEN [e EXCEPT !.pc = "rollback"]
     ELSE HttpEnd(e, 500)

Failed(s, exc) == IF s.kind = "http" THEN EngineFailed(s, exc) ELSE DnsFailed(s)

\* ------------------------------------------------------- the tasks' steps
\* `size, = struct.unpack('!H', await reader.readexactly(2))`, with
\* `except asyncio.IncompleteReadError: break`.
TcpReadSize(t) ==
  LET s == task[t]
  IN /\ s.pc = "t_size"
     /\ task' = [task EXCEPT ![t] =
          IF Len(s.inp) < 2
          THEN [s EXCEPT !.inp = <<>>, !.pc = "ended", !.fin = "eof"]
          ELSE [s EXCEPT !.size = Unpack(SubSeq(s.inp, 1, 2)),
                         !.inp = SubSeq(s.inp, 3, Len(s.inp)),
                         !.pc = "t_data"]]
     /\ UNCHANGED <<store, vars, yields>>

\* `data = await reader.readexactly(size)`, outside the try: a stream that
\* ends inside a message ends the handler with IncompleteReadError. Then
\* handle_nsupdate is entered with its own locals.
TcpReadData(t) ==
  LET s == task[t]
  IN /\ s.pc = "t_data"
     /\ task' = [task EXCEPT ![t] =
          IF Len(s.inp) < s.size
          THEN [s EXCEPT !.inp = <<>>, !.pc = "ended", !.fin = "error"]
          ELSE [s EXCEPT !.data = SubSeq(s.inp, 1, s.size),
                         !.inp = SubSeq(s.inp, s.size + 1, Len(s.inp)),
                         !.k = @ + 1, !.dbT = NoneH, !.changes = 0,
                         !.calls = <<>>, !.error = "none", !.goneAt = 0,
                         !.pc = "keys"]]
     /\ UNCHANGED <<store, vars, yields>>

\* The awaits before the transaction (get_all_keys, check_key_in_zone;
\* get_keys for HTTP) and the validation loop, which builds the updates.
TaskAuth(t) ==
  LET s == task[t]
  IN /\ s.pc = "keys"
     /\ task' = [task EXCEPT ![t] =
          [s EXCEPT !.updates = TaskUpdates(t), !.pc = "start"]]
     /\ UNCHANGED <<store, vars, yields>>

\* dbT = await backend.transaction_start(zone); `ok = 0` in the DNS handler,
\* `ok = True` in Backend.update.
TaskStart(t) ==
  LET s == task[t]
      h == NewHandle(t, s.k)
  IN /\ s.pc = "start"
     /\ task' = [task EXCEPT ![t] =
          [s EXCEPT !.calls = Append(@, NCall("transaction_start", h, "ok")),
                    !.dbT = h, !.changes = 0, !.ok = (s.kind = "http"),
                    !.idx = 1, !.pc = "loop"]]
     /\ store' = [store EXCEPT !.tx[h] = [open |-> TRUE, writes |-> <<>>],
                               !.last = h]
     /\ UNCHANGED <<vars, yields>>

\* One iteration of the apply loop, up to the next await: the op succeeds,
\* or it returns false and the loop is left.
TaskApply(t) ==
  LET s == task[t]
      r == s.updates[s.idx]
      m == DispatchMethod(r)
      h == PassedHandle(s)
  IN /\ s.pc = "loop"
     /\ \E o \in {"ok", "fail"} :
          /\ task' = [task EXCEPT ![t] =
               IF o = "ok"
               THEN [Logged(s, o) EXCEPT
                       !.ok = TRUE, !.changes = @ + 1, !.idx = @ + 1,
                       !.pc = IF s.idx < Len(s.updates) THEN "loop" ELSE "notify"]
               ELSE IF NotifyNeeded(s.changes)
               THEN [Logged(s, o) EXCEPT !.ok = FALSE, !.pc = "notify"]
               ELSE Failed([Logged(s, o) EXCEPT !.ok = FALSE], "Exception")]
          /\ store' = IF o = "ok" /\ h \in HandleSet
                      THEN [store EXCEPT !.tx[h].writes = Append(@, Write(m, r))]
                      ELSE store
     /\ UNCHANGED <<vars, yields>>

\* ok = await backend.notify_changed(dbT, zone) and ok
TaskNotify(t) ==
  LET s == task[t]
      l == Logged(s, "ok")
  IN /\ s.pc = "notify"
     /\ task' = [task EXCEPT ![t] =
          IF NotifyFold(TRUE, s.ok) THEN [l EXCEPT !.pc = "commit"]
          ELSE Failed(l, "Exception")]
     /\ UNCHANGED <<store, vars, yields>>

\* await backend.transaction_commit(dbT, zone). The DNS handler yields
\* NOERROR or SERVFAIL and sets dbT = None; Backend.update returns after a
\* true commit and raises after a false one, keeping dbT.
TaskCommit(t) ==
  LET s == task[t]
      h == PassedHandle(s)
  IN /\ s.pc = "commit"
     /\ \E o \in {"ok", "fail"} :
          LET l == Logged(s, o)
          IN /\ task' = [task EXCEPT ![t] =
                  IF s.kind = "http"
                  THEN IF o = "ok"
                       THEN HttpEnd([l EXCEPT !.dbT = HandleAfterCommit(s.dbT, TRUE)], 200)
                       ELSE Failed(l, "Exception")
                  ELSE GenDone([Yield(l, IF o = "ok" THEN NOERROR ELSE SERVFAIL)
                                  EXCEPT !.dbT = NoneH])]
             /\ store' = IF o = "ok" /\ h \in HandleSet
                         THEN [store EXCEPT
                                 !.committed = Replay(@, store.tx[h].writes),
                                 !.tx[h] = NoTx]
                         ELSE store
     /\ UNCHANGED <<vars, yields>>

\* await backend.transaction_rollback(dbT, zone, ...) in the finally clause;
\* then the generator ends, or Backend.update raises the saved error.
TaskRollback(t) ==
  LET s == task[t]
      h == PassedHandle(s)
      l == Logged(s, "ok")
  IN /\ s.pc = "rollback"
     /\ task' = [task EXCEPT ![t] =
          IF s.kind = "http" THEN HttpEnd(l, 500) ELSE GenDone(l)]
     /\ store' = IF h \in HandleSet THEN [store EXCEPT !.tx[h] = NoTx] ELSE store
     /\ UNCHANGED <<vars, yields>>

\* A task is cancelled while it awaits a backend call (a run has one
\* cancellation or one loss of a transport): the await raises
\* CancelledError. In the try of the DNS handler the bare except takes it;
\* in Backend.update `except Exception` does not, and the finally clause
\* runs; in either finally clause it leaves the handler.
TaskCancel(t) ==
  LET s == task[t]
      l == [Logged(s, "cancelled") EXCEPT !.cancelled = TRUE]
  IN /\ s.pc \in {"start", "loop", "notify", "commit", "rollback"}
     /\ \A u \in Tasks : ~task[u].cancelled /\ ~task[u].gone
     /\ task' = [task EXCEPT ![t] =
          IF s.pc = "rollback"
          THEN IF s.kind = "http" THEN HttpEnd([l EXCEPT !.error = "CancelledError"], 500)
               ELSE [l EXCEPT !.error = "CancelledError", !.pc = "ended", !.fin = "error"]
          ELSE Failed(l, "CancelledError")]
     /\ UNCHANGED <<store, vars, yields>>

\* The peer of a TCP connection or the sender of a datagram goes away while
\* the transaction is under way. writer.write and transport.sendto do not
\* raise for it, and the handler does not look at the transport.
TransportGone(t) ==
  LET s == task[t]
  IN /\ s.kind \in {"tcp", "udp"}
     /\ s.pc \in {"loop", "notify", "commit"}
     /\ \A u \in Tasks : ~task[u].cancelled /\ ~task[u].gone
     /\ task' = [task EXCEPT ![t] = [s EXCEPT !.gone = TRUE, !.goneAt = Len(s.calls)]]
     /\ UNCHANGED <<store, vars, yields>>

InitNet ==
  /\ front = "none"
  /\ pc = "idle"
  /\ msg = NoMsg
  /\ zone = <<>>
  /\ jupd = <<>>
  /\ updates = <<>>
  /\ idx = 0
  /\ dbT = Unbound
  /\ changes = 0
  /\ ok = TRUE
  /\ error = "none"
  /\ result = "none"
  /\ resp = NoResp
  /\ db = {}
  /\ snap = {}
  /\ before = {}
  /\ calls = <<>>
  /\ nreq = 0
  /\ task \in {tk \in [Tasks -> InitialTasks] : tk[2] \in PeerTasks}
  /\ store = EmptyStore
  /\ yields = 0

NextNet ==
  \/ \E t \in Tasks : TcpReadSize(t)
  \/ \E t \in Tasks : TcpReadData(t)
  \/ \E t \in Tasks : TaskAuth(t)
  \/ \E t \in Tasks : TaskStart(t)
  \/ \E t \in Tasks : TaskApply(t)
  \/ \E t \in Tasks : TaskNotify(t)
  \/ \E t \in Tasks : TaskCommit(t)
  \/ \E t \in Tasks : TaskRollback(t)
  \/ \E t \in Tasks : TaskCancel(t)
  \/ \E t \in Tasks : TransportGone(t)

SpecNet == InitNet /\ [][NextNet]_<<vars, nvars>>

\* ------------------------------------------- the in-memory mock backend
\* MockBackend keeps its records in the list MOCK_ZONE; add_to_rrset appends
\* a record only if it is not in the list, so the list is a set of records.
\* Each method is computed as its list comprehension computes it.
MaxMockCalls == 2

mock_add_to_rrset(records, name, rdtype, ttl, data) ==
  records \cup {Rec(name, rdtype, ttl, data)}

\* MOCK_ZONE = [rr for rr in MOCK_ZONE if rr[0] == dns_name]
mock_delete_all_rrsets(records, name) == {rr \in records : rr.name = name}

mock_delete_rrset(records, name, rdtype) ==
  {rr \in records : rr.name # name \/ rr.rdtype # rdtype}

mock_delete_from_rrset(records, name, rdtype, data) ==
  {rr \in records : rr.name # name \/ rr.rdtype # rdtype \/ rr.data # data}

\* The names, types and addresses of the records the mock backend is given.
MockNames == {Apex, Sub}

MockTypes == {"A", "AAAA"}

MockRecords == {Rec(n, t, MinimumTTL, "d1") : n \in MockNames, t \in MockTypes}

MockLog(m, n, t, ttl, d) ==
  Append(calls, Call(m, NoneH, 0, "ok", FALSE, ZoneStr(Apex), n, ttl, t, d))

MockAdd ==
  /\ Len(calls) < MaxMockCalls
  /\ \E n \in MockNames, t \in MockTypes :
       /\ db' = mock_add_to_rrset(db, n, t, MinimumTTL, "d1")
       /\ calls' = MockLog("add_to_rrset", n, t, MinimumTTL, "d1")
  /\ before' = db
  /\ UNCHANGED <<front, pc, msg, zone, jupd, updates, idx, dbT, changes, ok, error,
                 result, resp, snap, nreq>>
  /\ UNCHANGED nvars

MockDeleteAll ==
  /\ Len(calls) < MaxMockCalls
  /\ \E n \in MockNames :
       /\ db' = mock_delete_all_rrsets(db, n)
       /\ calls' = MockLog("delete_all_rrsets", n, "", 0, "")
  /\ before' = db
  /\ UNCHANGED <<front, pc, msg, zone, jupd, updates, idx, dbT, changes, ok, error,
                 result, resp, snap, nreq>>
  /\ UNCHANGED nvars

MockDeleteRRset ==
  /\ Len(calls) < MaxMockCalls
  /\ \E n \in MockNames, t \in MockTypes :
       /\ db' = mock_delete_rrset(db, n, t)
       /\ calls' = MockLog("delete_rrset", n, t, 0, "")
  /\ before' = db
  /\ UNCHANGED <<front, pc, msg, zone, jupd, updates, idx, dbT, changes, ok, error,
                 result, resp, snap, nreq>>
  /\ UNCHANGED nvars

MockDeleteFrom ==
  /\ Len(calls) < MaxMockCalls
  /\ \E n \in MockNames, t \in MockTypes :
       /\ db' = mock_delete_from_rrset(db, n, t, "d1")
       /\ calls' = MockLog("delete_from_rrset", n, t, 0, "d1")
  /\ before' = db
  /\ UNCHANGED <<front, pc, msg, zone, jupd, updates, idx, dbT, changes, ok, error,
                 result, resp, snap, nreq>>
  /\ UNCHANGED nvars

\* MOCK_ZONE holds any records when a call arrives.
InitMock ==
  /\ front = "none"
  /\ pc = "idle"
  /\ msg = NoMsg
  /\ zone = <<>>
  /\ jupd = <<>>
  /\ updates = <<>>
  /\ idx = 0
  /\ dbT = Unbound
  /\ changes = 0
  /\ ok = TRUE
  /\ error = "none"
  /\ result = "none"
  /\ resp = NoResp
  /\ db \in SUBSET MockRecords
  /\ snap = {}
  /\ before = db
  /\ calls = <<>>
  /\ nreq = 0
  /\ task = <<>>
  /\ store = NoStore
  /\ yields = 0

NextMock ==
  \/ MockAdd
  \/ MockDeleteAll
  \/ MockDeleteRRset
  \/ MockDeleteFrom

SpecMock == InitMock /\ [][NextMock]_<<vars, nvars>>

\* ------------------------------------------- a generator that is closed
\* The commit returned true and handle_nsupdate is suspended in
\* `yield response(msg, code=dns.rcode.NOERROR)`; `dbT = None` is the
\* statement after the yield. The consumer fails in its loop body, or the
\* generator is closed: GeneratorExit is raised at the yield with dbT still
\* the handle, and the bare `except:` takes it and yields again, which a
\* generator that is being closed may not do (RuntimeError in the closer).
\* What becomes of the suspended frame depends on who closed it: closed by
\* aclose(), it is closed once more when the generator is finalized, and
\* the finally clause runs with dbT set and awaits transaction_rollback;
\* closed by the event loop's finalizer hook, it is freed as it is.
GenClose(t) ==
  LET s == task[t]
      h == PassedHandle(s)
      l == [Logged(s, "ok") EXCEPT !.fin = "closed", !.gone = TRUE,
                                   !.goneAt = Len(s.calls) + 1]
  IN /\ s.kind \in {"tcp", "udp"}
     /\ s.pc = "commit"
     /\ \A u \in Tasks : ~task[u].cancelled /\ ~task[u].gone
     /\ \E finally \in BOOLEAN :
          task' = [task EXCEPT ![t] =
            IF finally THEN [l EXCEPT !.pc = "rollback"]
            ELSE [l EXCEPT !.pc = "ended"]]
     /\ store' = IF h \in HandleSet
                 THEN [store EXCEPT !.committed = Replay(@, store.tx[h].writes),
                                    !.tx[h] = NoTx]
                 ELSE store
     /\ UNCHANGED <<vars, yields>>

NextClose ==
  \/ NextNet
  \/ \E t \in Tasks : GenClose(t)

SpecClose == InitNet /\ [][NextClose]_<<vars, nvars>>

\* ------------------------------------------------ a backend that hangs
\* Every backend call is awaited bare: `await backend.transaction_start(zone)`
\* and the like, with no asyncio.wait_for or timeout around it in either
\* front-end or in Backend.update. A call that never returns leaves the task
\* suspended in that await for good (a run has one such call, and then no
\* cancellation or loss of a transport).
BackendHangs(t) ==
  LET s == task[t]
  IN /\ s.pc \in {"start", "loop", "notify", "commit", "rollback"}
     /\ \A u \in Tasks :
          ~task[u].cancelled /\ ~task[u].gone /\ task[u].pc # "hung"
     /\ task' = [task EXCEPT ![t] = [Logged(s, "hangs") EXCEPT !.pc = "hung"]]
     /\ UNCHANGED <<store, vars, yields>>

\* The steps of a task the event loop runs once its await has completed.
TaskStep(t) ==
  \/ TcpReadSize(t)
  \/ TcpReadData(t)
  \/ TaskAuth(t)
  \/ TaskStart(t)
  \/ TaskApply(t)
  \/ TaskNotify(t)
  \/ TaskCommit(t)
  \/ TaskRollback(t)

NextLive ==
  \/ NextNet
  \/ \E t \in Tasks : BackendHangs(t)

\* The event loop resumes every task whose await has completed, so a task
\* that can take a step takes one; nothing makes a hanging call return, and
\* nothing obliges a cancellation or a loss of the transport to happen.
SpecLive ==
  /\ InitNet
  /\ [][NextLive]_<<vars, nvars>>
  /\ \A t \in Tasks : WF_<<vars, nvars>>(TaskStep(t))

\* -------------------------------------------------------------- properties
IsMutation(c) == c.op \in Mutations

MutCalls == SelectSeq(calls, IsMutation)

CallIdx(op) == {k \in 1..Len(calls) : calls[k].op = op}

HandleStarted ==
  \E k \in CallIdx("transaction_start") : calls[k].res = "ok"

FailedCall ==
  \E k \in 1..Len(calls) :
    /\ calls[k].op \in Mutations \cup {"notify_changed", "transaction_commit"}
    /\ calls[k].res # "ok"

RollbackUndoes ==
  \A k \in CallIdx("transaction_rollback") : calls[k].res = "ok"

Committed ==
  \E k \in CallIdx("transaction_commit") : calls[k].res = "ok"

\* C1: when Backend.update has ended on a backend that gave a handle and
\* whose rollback undoes the handle's mutations, and an op, notify_changed
\* or transaction_commit failed or raised, the persisted records are those
\* that existed before the request.
C1_Atomicity ==
  (pc = "e_done" /\ HandleStarted /\ RollbackUndoes /\ FailedCall)
    => db = before

\* An update whose first op added a new record, whose later step failed,
\* and whose rollback has removed the record again.
C1_Witness ==
  /\ pc = "e_done"
  /\ HandleStarted
  /\ FailedCall
  /\ Len(calls) >= 2
  /\ calls[2].op = "add_to_rrset"
  /\ calls[2].res = "ok"
  /\ Rec(calls[2].name, "A", MinimumTTL, "d1") \notin before
  /\ CallIdx("transaction_rollback") # {}
  /\ RollbackUndoes
  /\ db = before

\* C2: each call of Backend.update calls transaction_start exactly once, and
\* a non-null handle is ended exactly once: either transaction_commit
\* returned true and there is no rollback, or there is exactly one rollback,
\* on that handle, with silent = (no op succeeded).
C2_Lifecycle ==
  pc = "e_done" =>
    /\ Cardinality(CallIdx("transaction_start")) = 1
    /\ \A k \in CallIdx("transaction_start") :
         calls[k].res = "ok" =>
           LET commits == {j \in CallIdx("transaction_commit") : calls[j].res = "ok"}
               rbs == CallIdx("transaction_rollback")
           IN \/ Cardinality(commits) = 1 /\ rbs = {}
              \/ /\ commits = {}
                 /\ Cardinality(rbs) = 1
                 /\ \A j \in rbs :
                      /\ calls[j].h = calls[k].h
                      /\ calls[j].silent = (CountOk(Mutations) = 0)

\* An update that ended with a rollback after one op had succeeded and the
\* commit had returned false.
C2_Witness ==
  /\ pc = "e_done"
  /\ HandleStarted
  /\ CountOk(Mutations) >= 1
  /\ \E k \in CallIdx("transaction_commit") : calls[k].res = "fail"
  /\ \E j \in CallIdx("transaction_rollback") : ~calls[j].silent

\* C3: transaction_commit is called only after every op of the request and
\* notify_changed (if called) returned success; Backend.update returns
\* normally exactly when transaction_commit returned true and raises otherwise.
C3_CommitOutcome ==
  /\ \A k \in CallIdx("transaction_commit") :
       /\ Len(MutCalls) = Len(updates)
       /\ \A j \in 1..(k - 1) :
            calls[j].op \in Mutations \cup {"notify_changed"} => calls[j].res = "ok"
  /\ pc = "e_done" =>
       /\ result \in {"returned", "raised"}
       /\ result = "returned" <=> Committed
       /\ result = "raised" <=> error # "none"

\* An update of two ops that raised although both ops succeeded, because
\* notify_changed returned false; no commit was attempted.
C3_Witness ==
  /\ pc = "e_done"
  /\ Len(updates) = 2
  /\ CountOk(Mutations) = 2
  /\ \E k \in CallIdx("notify_changed") : calls[k].res = "fail"
  /\ CallIdx("transaction_commit") = {}
  /\ result = "raised"

\* C4: the mutation calls of a request are a prefix of its op sequence: the
\* j-th call is for the j-th op (same owner name, add for an add and a delete
\* for a delete), and a call that did not succeed is the last one.
C4_OrderedPrefix ==
  LET mc == MutCalls
  IN /\ Len(mc) <= Len(updates)
     /\ \A j \in 1..Len(mc) :
          /\ mc[j].k = j
          /\ Lower(mc[j].name) = Lower(ToTextOmit(updates[j].name))
          /\ (mc[j].op = "add_to_rrset") <=> (updates[j].deleting = "None")
          /\ mc[j].res # "ok" => j = Len(mc)

\* A finished request of two ops whose first op returned failure: one call only.
C4_Witness ==
  /\ pc = "e_done"
  /\ Len(updates) = 2
  /\ Len(MutCalls) = 1
  /\ MutCalls[1].res = "fail"

Finished == pc \in {"e_done", "done"}

NotifyOrdered ==
  \A k \in CallIdx("notify_changed") :
    /\ \A j \in 1..Len(calls) : calls[j].op \in Mutations => j < k
    /\ \A j \in CallIdx("transaction_commit") : k < j
    /\ calls[k].res # "ok" => CallIdx("transaction_commit") = {}

\* C5 as stated: notify_changed is invoked exactly once if at least one op
\* succeeded, and not at all otherwise.
C5_Original ==
  /\ NotifyOrdered
  /\ Finished =>
       /\ CountOk(Mutations) >= 1 => Cardinality(CallIdx("notify_changed")) = 1
       /\ CountOk(Mutations) = 0 => CallIdx("notify_changed") = {}

MutationRaised ==
  \E k \in 1..Len(calls) : calls[k].op \in Mutations /\ calls[k].res = "raise"

\* C5 amended: notify_changed is invoked at most once; exactly once if at
\* least one op succeeded and no op raised an exception; not at all if no op
\* succeeded or an op raised. It comes after the last attempted op and
\* before transaction_commit, and a false result prevents the commit.
C5_NotifyOnce ==
  /\ NotifyOrdered
  /\ Cardinality(CallIdx("notify_changed")) <= 1
  /\ Finished =>
       /\ (CountOk(Mutations) >= 1 /\ ~MutationRaised)
            => Cardinality(CallIdx("notify_changed")) = 1
       /\ (CountOk(Mutations) = 0 \/ MutationRaised)
            => CallIdx("notify_changed") = {}

\* A finished request whose first op succeeded and whose second op returned
\* failure: notify_changed was still called once, and no commit followed.
C5_Witness ==
  /\ Finished
  /\ Len(MutCalls) = 2
  /\ MutCalls[1].res = "ok"
  /\ MutCalls[2].res = "fail"
  /\ Cardinality(CallIdx("notify_changed")) = 1
  /\ CallIdx("transaction_commit") = {}

NoBackendWork == CallIdx("transaction_start") = {} /\ Len(MutCalls) = 0

Accepted == resp.code \in {"NOERROR", "200"}

\* The request holds an add op whose TTL is below the minimum.
LowTtlAdd ==
  \/ /\ front = "dns"
     /\ \E k \in 1..Len(msg.update) :
          msg.update[k].deleting = "None" /\ msg.update[k].ttl < MinimumTTL
  \/ /\ front = "http"
     /\ \E k \in 1..Len(msg.updates) :
          msg.updates[k].op = "add" /\ JsonTtl(msg.updates[k]) < MinimumTTL
  \/ /\ front = "simple"
     /\ \E k \in 1..Len(jupd) :
          jupd[k].op = "add" /\ JsonTtl(jupd[k]) < MinimumTTL

\* The message passed TSIG verification with a key bound to its zone.
DnsAuthOk ==
  /\ front = "dns"
  /\ msg.sig = "good"
  /\ msg.key \in AllKeys
  /\ msg.key \in get_keys(msg.zone)

\* C6: on both front-ends a request with an add op below the minimum TTL, at
\* any position, is rejected without transaction_start or any mutation;
\* every add that reaches the backend has ttl >= minimum_ttl.
C6_TtlMinimum ==
  /\ LowTtlAdd => NoBackendWork /\ (pc = "done" => ~Accepted)
  /\ front \in {"dns", "http", "simple"} =>
       \A j \in 1..Len(MutCalls) :
         MutCalls[j].op = "add_to_rrset" => MutCalls[j].ttl >= MinimumTTL

\* An authorized DNS UPDATE whose first RR is a valid add and whose second RR
\* is an add with TTL 60 was answered NOTIMP without any backend call.
C6_Witness ==
  /\ pc = "done"
  /\ DnsAuthOk
  /\ ~msg.prereq
  /\ Len(msg.update) = 2
  /\ msg.update[1] = AddA(Sub, MinimumTTL)
  /\ msg.update[2] = AddA(Sub, 60)
  /\ resp.code = "NOTIMP"
  /\ calls = <<>>

IsApexDeleteRR(z, r) ==
  r.name = z /\ r.deleting = "ANY" /\ r.rdtype = "ANY" /\ r.ttl = 0 /\ Len(r.rd) = 0

ApexDeleteAt ==
  IF front = "dns"
  THEN {k \in 1..Len(msg.update) : IsApexDeleteRR(msg.zone, msg.update[k])}
  ELSE IF front = "http"
  THEN {k \in 1..Len(msg.updates) :
          /\ msg.updates[k].op = "delete"
          /\ msg.updates[k].type = Absent
          /\ msg.updates[k].dns_name = msg.zone}
  ELSE {}

InZone(z, n) ==
  \/ n = z
  \/ /\ Len(n) > Len(z)
     /\ n[Len(n) - Len(z)] = "."
     /\ \A k \in 1..Len(z) : n[Len(n) - Len(z) + k] = z[k]

\* The request holds an op whose owner name is outside its zone.
OutOfZoneOp ==
  \/ /\ front = "dns"
     /\ \E k \in 1..Len(msg.update) : ~InZone(msg.zone, msg.update[k].name)
  \/ /\ front = "http"
     /\ \E k \in 1..Len(msg.updates) :
          /\ msg.updates[k].dns_name # NoName
          /\ ~InZone(msg.zone, msg.updates[k].dns_name)
  \/ /\ front = "simple"
     /\ msg.zone # NoName
     /\ \E k \in 1..Len(msg.hostnames) : ~InZone(msg.zone, msg.hostnames[k])

\* C8: every mutation call of a front-end carries a name inside the zone it
\* carries (equal to it or ending with "." + zone), and a request with an op
\* outside the zone makes no transaction_start and no mutation.
C8_ZoneContainment ==
  /\ front \in {"dns", "http", "simple"} =>
       \A j \in 1..Len(MutCalls) : InZone(MutCalls[j].zone, MutCalls[j].name)
  /\ OutOfZoneOp => NoBackendWork /\ (pc = "done" => ~Accepted)

\* An authorized DNS UPDATE whose second RR is at "az", which is not inside
\* zone "z" although it ends with it, was rejected with no backend call.
C8_Witness ==
  /\ pc = "done"
  /\ DnsAuthOk
  /\ ~msg.prereq
  /\ Len(msg.update) = 2
  /\ msg.update[1] = AddA(Sub, MinimumTTL)
  /\ msg.update[2] = AddA(Alike, MinimumTTL)
  /\ ~Accepted
  /\ calls = <<>>

\* C9: an UPDATE without TSIG, with a TSIG naming an unknown key, with a
\* TSIG whose signature does not verify, or signed by a key not bound to the
\* zone is answered REFUSED, with no transaction_start and no mutation.
C9_DnsAuthorization ==
  (/\ front = "dns"
   /\ msg.opcode = "UPDATE"
   /\ \/ msg.sig = "none"
      \/ msg.key \notin AllKeys
      \/ msg.sig = "bad"
      \/ ~check_key_in_zone(msg.key, msg.zone))
    => /\ NoBackendWork
       /\ pc = "done" => resp.code = "REFUSED"

\* C10: both HTTP endpoints answer 403 (simple: badauth), with no
\* transaction_start and no mutation, when the zone has no keys, no secret
\* is supplied, the credentials are malformed or the secret is not a key of
\* the zone. (A JSON "key" that is not a string is left aside; malformed
\* credentials are those of the Basic header.)
C10_HttpAuthorization ==
  LET denied ==
        \/ /\ front = "http"
           /\ SelectAuth(msg) # NonString
           /\ \/ get_keys(msg.zone) = {}
              \/ SelectAuth(msg) = <<>>
              \/ AuthToken(SelectAuth(msg)) \notin Secrets(msg.zone)
        \/ /\ front = "simple"
           /\ \/ msg.scheme # "basic"
              \/ msg.cred # "pair"
              \/ get_keys(msg.zone) = {}
              \/ msg.secret = <<>>
              \/ msg.secret \notin Secrets(msg.zone)
  IN denied =>
       /\ NoBackendWork
       /\ pc = "done" =>
            /\ resp.code = "403"
            /\ front = "simple" => resp.body = "badauth"

\* The secret a /v1/update request presents: the body key if the body has
\* one, else the query key if there is one, else the Authorization header;
\* a value "Bearer <token>" (in any case) stands for its token, any other
\* value for itself with "+" in place of each blank.
Presented ==
  LET v == IF msg.bodyKey # NoKey THEN msg.bodyKey
           ELSE IF msg.queryKey # NoKey THEN msg.queryKey
           ELSE IF msg.header # NoKey THEN msg.header
           ELSE <<>>
      bearer == /\ Len(v) >= 7
                /\ Lower(SubSeq(v, 1, 6)) = <<"b", "e", "a", "r", "e", "r">>
                /\ v[7] = " "
  IN IF bearer THEN Strip(SubSeq(v, 8, Len(v)))
     ELSE [k \in 1..Len(v) |-> IF v[k] = " " THEN "+" ELSE v[k]]

HighestKey ==
  IF msg.bodyKey # NoKey THEN msg.bodyKey
  ELSE IF msg.queryKey # NoKey THEN msg.queryKey ELSE msg.header

\* C11: on POST /v1/update for a zone with keys, the request is answered 403
\* exactly when the secret of its highest-precedence source (body key, then
\* query key, then Authorization header), reduced to the token of a Bearer
\* value or with blanks replaced by "+", is not a secret of the zone; lower
\* sources play no part.
C11_CredentialPrecedence ==
  (/\ front = "http"
   /\ pc # "h_auth"
   /\ get_keys(msg.zone) # {}
   /\ HighestKey # NonString)
    => ((error = "PermissionError" /\ resp.code = "403")
          <=> Presented \notin Secrets(msg.zone))

\* A request whose body key is wrong and whose Authorization header holds a
\* valid Bearer secret was answered 403.
C11_Witness ==
  /\ front = "http"
  /\ pc = "done"
  /\ msg.zone = Apex
  /\ msg.bodyKey = WrongSecret
  /\ msg.header = Bearer(S1)
  /\ resp.code = "403"

\* The request is a TSIG-authorized UPDATE without prerequisites whose update
\* section passed the validation loop.
DnsValidUpdate ==
  /\ DnsAuthOk
  /\ ~msg.prereq
  /\ DnsValidate(msg.zone, msg.update) = "ok"

\* C12: such a request is answered NOERROR if and only if transaction_commit
\* returned true, and SERVFAIL in every other case; a SERVFAIL answer comes
\* with the rollback of the transaction that was started (asked here only
\* once the request has ended, which is later than the moment of the answer).
C12_DnsOutcome ==
  (pc = "done" /\ DnsValidUpdate) =>
    /\ resp.code \in {"NOERROR", "SERVFAIL"}
    /\ resp.code = "NOERROR" <=> Committed
    /\ (resp.code = "SERVFAIL" /\ HandleStarted)
         => CallIdx("transaction_rollback") # {}

\* The method RFC 2136 section 2.5 gives for a marker and a type.
Section25(deleting, rdtype) ==
  CASE deleting = "ANY" /\ rdtype = "ANY" -> "delete_all_rrsets"
    [] deleting = "ANY" /\ rdtype # "ANY" -> "delete_rrset"
    [] deleting = "NONE" -> "delete_from_rrset"
    [] deleting = "None" -> "add_to_rrset"

\* The RRs of all modelled requests.
ModelledRRs ==
  DnsOps \cup DnsTypeOps \cup EngineOps
    \cup {rrset_from_json(o).r : o \in JsonOps \cup JsonTypeOps}

\* The DNS apply loop and Backend.update pick the same method for every RR.
DispatchAgree ==
  \A r \in ModelledRRs :
    r.deleting \in {"None", "ANY", "NONE"} => DnsDispatch(r) = DispatchMethod(r)

\* C13: every update RR that is applied goes to one backend method, the one
\* of the section 2.5 table for its marker and type, with its type (for all
\* but delete_all_rrsets) and its rdata (for delete_from_rrset and
\* add_to_rrset); the DNS apply loop and Backend.update pick the same method.
C13_Dispatch ==
  /\ \A j \in 1..Len(MutCalls) :
       LET c == MutCalls[j]
           r == updates[c.k]
       IN /\ c.op = Section25(r.deleting, r.rdtype)
          /\ c.op # "delete_all_rrsets" => c.rdtype = r.rdtype
          /\ c.op \in {"delete_from_rrset", "add_to_rrset"} => c.data = r.rd[1]
          /\ \A i \in 1..Len(MutCalls) : MutCalls[i].k = c.k => i = j
  /\ DispatchAgree

\* A DNS UPDATE whose RR deletes the A records of a name, and one whose RR
\* deletes one A record, reached delete_rrset and delete_from_rrset.
C13_Witness ==
  /\ front = "dns"
  /\ pc = "done"
  /\ updates = <<DelRRset(Sub, "A"), DelFrom(Sub, "A", 0)>>
  /\ Len(MutCalls) = 2
  /\ MutCalls[1].op = "delete_rrset"
  /\ MutCalls[2].op = "delete_from_rrset"

\* The positions of the delete RRs with a non-zero TTL in a DNS request.
BadTtlDeleteAt ==
  IF front = "dns"
  THEN {k \in 1..Len(msg.update) :
          msg.update[k].deleting # "None" /\ msg.update[k].ttl # 0}
  ELSE {}

NothingElseWrong(z, r) ==
  /\ InZone(z, r.name)
  /\ r.deleting = "None" => r.ttl >= MinimumTTL
  /\ Len(r.rd) > 0 => (Len(r.rd) = 1 /\ r.rdtype \in {"A", "AAAA", "MX", "SRV", "TXT"})
  /\ ~(Lower(r.name) = Lower(z) /\ r.rdtype = "ANY")

C15_Prerequisites ==
  (DnsAuthOk /\ msg.prereq) =>
    /\ NoBackendWork
    /\ pc = "done" => resp.code = "NOTIMP"

\* An authorized UPDATE with prerequisites whose update section holds a
\* delete with TTL 5 (FORMERR without the prerequisites) was answered NOTIMP.
C15_Witness ==
  /\ pc = "done"
  /\ DnsAuthOk
  /\ msg.prereq
  /\ msg.update = <<DelFrom(Sub, "A", 5)>>
  /\ resp.code = "NOTIMP"
  /\ calls = <<>>

\* The message decodes (no TSIG error) and is not one the server supports.
UnsupportedDns ==
  /\ front = "dns"
  /\ FromWire(msg, AllKeys) = "ok"
  /\ \/ msg.opcode \notin {"QUERY", "UPDATE"}
     \/ /\ msg.opcode = "QUERY"
        /\ \/ Len(msg.question) # 1
           \/ msg.question[1].rdtype # "SOA"

\* C16: every decodable message whose opcode is neither QUERY nor UPDATE,
\* and every QUERY that has not exactly one question or whose question is
\* not of type SOA, is answered NOTIMP.
C16_Unsupported ==
  (UnsupportedDns /\ pc = "done") => resp.code = "NOTIMP"

\* A QUERY with exactly one question, of type SOA.
SoaQuery ==
  /\ front = "dns"
  /\ msg.opcode = "QUERY"
  /\ Len(msg.question) = 1
  /\ msg.question[1].rdtype = "SOA"

\* The zones of the map get_all_zones returned, by the kind the call log
\* holds.
ZonesOf(kind) ==
  LET zm == CHOOSE m \in ZoneMaps : m.kind = kind
  IN {zm.entries[k].name : k \in DOMAIN zm.entries}

\* C17: a QUERY with exactly one SOA question is answered authoritatively
\* (AA flag, one SOA record for the question name) when the name lies in a
\* zone of get_all_zones and NXDOMAIN when it lies in none, for the zone map
\* of every backend in the repository.
C17_SoaDiscovery ==
  (SoaQuery /\ pc = "done") =>
    /\ Len(calls) = 1
    /\ calls[1].op = "get_all_zones"
    /\ LET known == \E z \in ZonesOf(calls[1].res) : InZone(z, msg.question[1].name)
       IN resp = IF known THEN Answer("NOERROR", "AA SOA") ELSE Answer("NXDOMAIN", "")

\* The same for the zone map of the mock backend alone.
C17_MockOnly ==
  (SoaQuery /\ pc = "done" /\ Len(calls) = 1 /\ calls[1].res = "mock") =>
    LET known == \E z \in ZonesOf("mock") : InZone(z, msg.question[1].name)
    IN resp = IF known THEN Answer("NOERROR", "AA SOA") ELSE Answer("NXDOMAIN", "")

\* The types the DNS front-end is said to support.
ClaimedTypes == {"A", "AAAA", "CNAME", "MX", "SRV", "TXT"}

\* An authorized update without prerequisites that consists of one add RR
\* with a name in the zone, a TTL of at least the minimum and one rdata.
SingleGoodAdd ==
  /\ DnsAuthOk
  /\ ~msg.prereq
  /\ Len(msg.update) = 1
  /\ msg.update[1].deleting = "None"
  /\ InZone(msg.zone, msg.update[1].name)
  /\ msg.update[1].ttl >= MinimumTTL
  /\ Len(msg.update[1].rd) = 1

\* C18: such an add of type A, AAAA, CNAME, MX, SRV or TXT passes validation
\* (a transaction is asked for, and add_to_rrset is called once it has
\* started); an add of any other type is answered NOTIMP without any backend
\* call.
C18_DnsTypes ==
  (SingleGoodAdd /\ pc = "done") =>
    IF msg.update[1].rdtype \in ClaimedTypes
    THEN /\ CallIdx("transaction_start") # {}
         /\ HandleStarted =>
              \E k \in CallIdx("add_to_rrset") :
                calls[k].rdtype = msg.update[1].rdtype
    ELSE resp.code = "NOTIMP" /\ calls = <<>>

\* The members the documentation asks of an add of each type.
WellFormedAdd(o) ==
  /\ o.op = "add"
  /\ o.dns_name # NoName
  /\ o.data \notin {Absent, ""}
  /\ o.type = "A" => o.data \in V4Literals
  /\ o.type = "AAAA" => o.data \in V6Literals
  /\ o.type \in {"MX", "SRV"} => o.priority # NoNum
  /\ o.type = "SRV" => o.weight # NoNum /\ o.port # NoNum

\* An update request with one such add has passed the credential test and
\* _do_updates has converted its list.
OneAddConverted ==
  /\ front = "http"
  /\ Len(jupd) = 1
  /\ WellFormedAdd(jupd[1])
  /\ pc \in {"e_start", "done"}

\* The record set _do_updates holds for the add is of the add's type and
\* carries its data, and its priority if it is an MX or SRV. (The list is
\* kept only when validate has accepted it.)
CarriesAdd(o) ==
  /\ pc = "e_start" => Len(updates) = 1
  /\ updates # <<>> =>
       /\ Len(updates) = 1
       /\ updates[1].name = o.dns_name
       /\ updates[1].rdtype = o.type
       /\ updates[1].deleting = "None"
       /\ updates[1].rd = <<o.data>>
       /\ o.type \in {"MX", "SRV"} =>
            (updates[1].nums # <<>> /\ updates[1].nums[1] = o.priority)

ConvertFailed == error \in {"KeyError", "AttributeError", "SyntaxError"}

\* C19: rrset_from_json turns a well-formed add of type A, AAAA, CNAME, MX,
\* SRV or TXT into a record set of that type that carries the data (and the
\* priority of an MX or SRV); an add of any other type is answered 400.
C19_JsonTypes ==
  OneAddConverted =>
    IF jupd[1].type \in ClaimedTypes
    THEN ~ConvertFailed /\ CarriesAdd(jupd[1])
    ELSE pc = "done" /\ resp.code = "400"

\* The same for the types whose entry in the codec table is the type's own
\* class.
C19_OwnDecoder ==
  (OneAddConverted /\ jupd[1].type \in {"A", "AAAA", "CNAME", "MX"}) =>
    ~ConvertFailed /\ CarriesAdd(jupd[1])

\* The backend call a JSON delete op stands for: the method, the type and
\* the data it is given.
Narrowed(o) ==
  IF o.type \in {Absent, "ANY"} THEN <<"delete_all_rrsets", "", "">>
  ELSE IF o.data \in {Absent, ""} THEN <<"delete_rrset", o.type, "">>
  ELSE <<"delete_from_rrset", o.type, o.data>>

CallShape(c) == <<c.op, c.rdtype, c.data>>

\* An update request with one delete op, of a name inside the zone and
\* below its apex, without a TTL, has passed the credential test and ended.
OneDeleteDone ==
  /\ front = "http"
  /\ pc = "done"
  /\ Len(jupd) = 1
  /\ jupd[1].op = "delete"
  /\ jupd[1].ttl \in {NoTtl, 0}
  /\ InZone(zone, jupd[1].dns_name)
  /\ jupd[1].dns_name # zone

\* C20: a JSON delete op without a type becomes delete_all_rrsets, with a
\* type and no data delete_rrset of that type, with a type and data
\* delete_from_rrset of that type and data: the request reaches the engine,
\* and once the transaction has started the one mutation call is that one;
\* a delete op never leads to add_to_rrset.
C20_DeleteNarrowing ==
  OneDeleteDone =>
    /\ CallIdx("transaction_start") # {}
    /\ HandleStarted =>
         (Len(MutCalls) = 1 /\ CallShape(MutCalls[1]) = Narrowed(jupd[1]))

\* What holds of every request of the HTTP front-ends: the k-th mutation
\* call is the one the k-th op stands for when that op is a delete.
C20_CallsNarrowed ==
  (front \in {"http", "simple"}) =>
    \A k \in 1..Len(MutCalls) :
      (k <= Len(jupd) /\ jupd[k].op = "delete") =>
        CallShape(MutCalls[k]) = Narrowed(jupd[k])

\* The integer parameters the interface assigns to an add of a record set.
ClaimedInts(r) ==
  IF r.rdtype = "MX" THEN <<r.nums[1], Null, Null>>
  ELSE IF r.rdtype = "SRV" THEN <<r.nums[1], r.nums[2], r.nums[3]>>
  ELSE <<Null, Null, Null>>

\* C21: every add handed to the backend carries i1 = preference for an MX,
\* i1, i2, i3 = priority, weight, port for an SRV and three nulls for any
\* other type, in the SQL backend's statement parameters and in the
\* arguments of the DNS front-end.
C21_AddInts ==
  \A k \in CallIdx("add_to_rrset") :
    calls[k].ints = ClaimedInts(updates[calls[k].k])

\* The same for the MX adds alone.
C21_MxOnly ==
  \A k \in CallIdx("add_to_rrset") :
    calls[k].rdtype = "MX" =>
      (calls[k].ints[1] = updates[calls[k].k].nums[1])

\* An update request that has passed the credential test and has ended.
HttpUpdateEnded == front = "http" /\ jupd # <<>> /\ pc = "done"

\* The request holds an add op that states a TTL below the minimum.
StatedLowTtl ==
  \E k \in 1..Len(jupd) :
    jupd[k].op = "add" /\ jupd[k].ttl # NoTtl /\ jupd[k].ttl < MinimumTTL

\* C22: an update request with a valid key that holds an add op whose TTL is
\* below the minimum is answered 400 with an error body and changes no
\* record.
C22_ValidationStatus ==
  (HttpUpdateEnded /\ StatedLowTtl) =>
    /\ resp = Answer("400", "error_text")
    /\ NoBackendWork
    /\ db = before

\* What holds of the rejections of validate and of the conversion: no
\* backend work and no change, and never status 200; an object without
\* "dns_name" in first place is answered 400.
C22_Rejected ==
  (HttpUpdateEnded /\ (LowTtlAdd \/ OutOfZoneOp \/ ApexDeleteAt # {})) =>
    /\ NoBackendWork
    /\ db = before
    /\ resp.code \in {"400", "500"}

\* Backend.update has raised for a request of an HTTP endpoint, and the
\* request has been answered.
HttpEngineFailed ==
  /\ front \in {"http", "simple"}
  /\ pc = "done"
  /\ result = "raised"

\* C23: when the engine fails for an authenticated, valid HTTP request, the
\* answer is 500 (body 911 on the simple endpoint), and the body does not
\* hold the text of the exception.
C23_BackendFailure ==
  HttpEngineFailed =>
    /\ resp.code = "500"
    /\ front = "simple" => resp.body = "911"
    /\ front = "http" => resp.body = "error_true"

\* The same when no backend method raised a KeyError, and in any case the
\* answer is not 200.
C23_OwnExceptions ==
  HttpEngineFailed =>
    /\ resp.code # "200"
    /\ error # "KeyError" =>
         /\ resp.code = "500"
         /\ front = "simple" => resp.body = "911"
         /\ front = "http" => resp.body = "error_true"

\* An update request was answered after the engine committed.
HttpCommitted == front = "http" /\ pc = "done" /\ Committed

\* C24: when the engine commits, POST /v1/update answers 200 with an array
\* that holds one entry ["ok", u] for each submitted update object u, in the
\* order of submission.
C24_SuccessBody ==
  HttpCommitted =>
    /\ resp.code = "200"
    /\ resp.json = [k \in 1..Len(msg.updates) |-> JPair("ok", msg.updates[k])]

\* What the answer does hold: status 200 and the submitted update objects
\* themselves, in order.
C24_Echo ==
  HttpCommitted =>
    /\ resp.code = "200"
    /\ resp.json = [k \in 1..Len(msg.updates) |-> JObject(msg.updates[k])]

\* The address lists as the interface describes them: the entries of myip
\* without ":" and, for IPv6, the entries of myipv6, or those of myip with
\* ":" when myipv6 is absent (absentOnly) or has an empty first entry.
StatedV4(m) ==
  IF m.offline THEN <<>>
  ELSE SelectSeq(m.myip, LAMBDA ip : ip # "" /\ ~IsV6(ip))

StatedV6(m, absentOnly) ==
  IF m.offline THEN <<>>
  ELSE IF m.myipv6 = <<"">> \/ (~absentOnly /\ m.myipv6[1] = "")
  THEN SelectSeq(m.myip, IsV6)
  ELSE m.myipv6

\* The ops of one hostname: per family one add per address, or one delete.
StatedBlock(m, h, absentOnly) ==
  LET t == IF m.ttl = NoTtl THEN DefaultTTL ELSE m.ttl
      fam(rtype, ips) ==
        IF ips = <<>> THEN <<JsonOp("delete", h, rtype, NoTtl, Absent)>>
        ELSE [k \in 1..Len(ips) |-> JsonOp("add", h, rtype, t, ips[k])]
  IN fam("A", StatedV4(m)) \o fam("AAAA", StatedV6(m, absentOnly))

\* The synthesized list is the blocks of the hostnames, in their order.
Synthesized(absentOnly) ==
  LET n == Len(StatedBlock(msg, msg.hostnames[1], absentOnly))
  IN /\ Len(jupd) = n * Len(msg.hostnames)
     /\ \A i \in 1..Len(msg.hostnames) :
          SubSeq(jupd, (i - 1) * n + 1, i * n)
            = StatedBlock(msg, msg.hostnames[i], absentOnly)
     /\ msg.offline => \A k \in 1..Len(jupd) : jupd[k].op = "delete"

SimpleCommitted == front = "simple" /\ pc = "done" /\ Committed

\* The lines of the plain-text body: one per hostname that received an
\* address, holding its addresses.
StatedLines(m) ==
  LET ips == StatedV4(m) \o StatedV6(m, FALSE)
  IN IF ips = <<>> THEN <<>>
     ELSE [k \in 1..Len(m.hostnames) |-> ips]

\* C26: when the engine commits a simple request, the answer is 200 with a
\* plain-text body of one line "good ip[,ip...]" per hostname that received
\* at least one address.
C26_SimpleGood ==
  SimpleCommitted =>
    /\ resp.code = "200"
    /\ resp.body = "good"
    /\ resp.json = StatedLines(msg)

\* What a committed simple request is answered: the reading of the result
\* list raises ValueError outside the handler's try, so the client gets the
\* web server's 500 while the records stay committed.
C26_Crash ==
  SimpleCommitted =>
    /\ resp = Answer("500", "server_error")
    /\ error = "ValueError"
    /\ \A k \in 1..Len(jupd) :
         jupd[k].op = "add" =>
           \E rec \in db : /\ rec.name = jupd[k].dns_name
                           /\ rec.rdtype = jupd[k].type
                           /\ rec.data = jupd[k].data

\* The mutation call at position k of the log is the one Backend.update
\* makes for its op: method, name, TTL, type and rdata.
EngineArgs(k) ==
  LET c == calls[k]
      r == updates[c.k]
      m == DispatchMethod(r)
  IN /\ c.op = m
     /\ c.name = ToTextOmit(r.name)
     /\ c.ttl = r.ttl
     /\ c.rdtype = CallType(m, r)
     /\ c.data = CallData(m, r)

\* The calls of a request follow the pattern of Backend.update: one call per
\* op up to the first failure, notify_changed when an op succeeded, commit
\* when all succeeded, rollback when a handle was given and the commit did
\* not succeed.
EngineCallPattern ==
  LET muts == {k \in 1..Len(calls) : calls[k].op \in Mutations}
      raised == \E k \in 1..Len(calls) :
                  calls[k].op # "transaction_rollback" /\ calls[k].res = "raise"
      opsOk == \A k \in muts : calls[k].res = "ok"
      notifyOk == \A k \in CallIdx("notify_changed") : calls[k].res = "ok"
      loopRaised == \E k \in muts : calls[k].res = "raise"
  IN /\ calls[1].op = "transaction_start"
     /\ \A k \in muts : EngineArgs(k)
     /\ CallIdx("notify_changed") # {}
          <=> ((\E k \in muts : calls[k].res = "ok") /\ ~loopRaised)
     /\ CallIdx("transaction_commit") # {}
          <=> (calls[1].res # "raise" /\ opsOk /\ notifyOk)
     /\ CallIdx("transaction_rollback") # {}
          <=> (HandleStarted /\ ~Committed)

\* The records a request leaves on a backend whose rollback undoes the
\* handle's mutations: those of before, unless the commit succeeded.
EngineEndState ==
  (HandleStarted /\ RollbackUndoes /\ ~Committed) => db = before

\* C27: a DNS UPDATE makes the backend calls that the HTTP request with the
\* same ops makes through Backend.update, transaction_start, the same
\* mutation with the same arguments per op, notify_changed, commit and
\* rollback under the same conditions, and so leaves the same records.
C27_Equivalence ==
  (front = "dns" /\ pc = "done" /\ updates # <<>>
     /\ CallIdx("transaction_start") # {})
    => EngineCallPattern /\ EngineEndState

\* The pattern and the end state as they hold for the requests that go
\* through Backend.update: HTTP update, simple update and direct call.
C27_EngineSide ==
  (front \in {"http", "simple", "engine"} /\ pc = "e_done" /\ calls # <<>>)
    => EngineCallPattern /\ EngineEndState

\* ---------------------------------------- properties of concurrent requests
\* The responses a TCP task has written: every second chunk of its output.
Responses(s) == [j \in 1..(Len(s.out) \div 2) |-> s.out[2 * j]]

\* A task is inside handle_nsupdate, before the response of its message.
Handling(s) == s.pc \in {"keys", "start", "loop", "notify", "commit"}

OwnCommit(s) ==
  \E i \in 1..Len(s.calls) :
    s.calls[i].op = "transaction_commit" /\ s.calls[i].res = "ok"

\* The response of the task's current request has been written, and its
\* code.
Answered(s) ==
  IF s.kind = "tcp" THEN s.k >= 1 /\ Len(s.out) = 2 * s.k ELSE s.out # <<>>

AnswerCode(s) ==
  IF s.kind = "http" THEN s.out[1][1] ELSE s.out[Len(s.out)][2]

SuccessCode(s) == IF s.kind = "http" THEN 200 ELSE NOERROR

\* The task has told its client of a success.
ToldSuccess(s) ==
  \E j \in 1..Len(s.out) :
    IF s.kind = "http" THEN s.out[j] = <<200>>
    ELSE Len(s.out[j]) = 2 /\ s.out[j][2] = NOERROR /\ (s.kind = "tcp" => j % 2 = 0)

\* C29: of two requests that run concurrently, each in its own task, each
\* has its own transaction handle, which all its backend calls carry and no
\* call of the other; its own count of successful ops; and its own outcome,
\* success exactly if its own commit succeeded. On a backend that keeps the
\* writes of a handle apart, the open transaction of a task holds its own
\* writes, and the records of a task are committed exactly if it was told a
\* success, whatever became of the other.
C29_Independence ==
  /\ \A t \in Tasks :
       LET s == task[t]
           okOps == {i \in 1..Len(s.calls) :
                       s.calls[i].op \in Mutations /\ s.calls[i].res = "ok"}
       IN /\ \A i \in 1..Len(s.calls) :
               /\ (i = 1) = (s.calls[i].op = "transaction_start")
               /\ s.calls[i].h = s.calls[1].h
               /\ s.calls[1].res = "ok" => s.calls[i].h = NewHandle(t, s.k)
          /\ s.changes = Cardinality(okOps)
          /\ Answered(s) => ((AnswerCode(s) = SuccessCode(s)) = OwnCommit(s))
          /\ (s.pc \in {"loop", "notify", "commit", "rollback"}) =>
               /\ store.tx[s.dbT].open
               /\ Len(store.tx[s.dbT].writes) = s.changes
               /\ \A w \in 1..s.changes : store.tx[s.dbT].writes[w].data = TaskData(t)
          /\ ToldSuccess(s) = (\E rec \in store.committed : rec.data = TaskData(t))
  /\ \A i \in 1..Len(task[1].calls), j \in 1..Len(task[2].calls) :
       task[1].calls[i].h \in HandleSet => task[1].calls[i].h # task[2].calls[j].h

\* Two datagram tasks are inside their transactions at the same time: the
\* second op of the first has failed and it awaits its rollback, the second
\* has two successful ops and awaits its commit.
C29_Witness ==
  /\ task[1].kind = "udp"
  /\ task[1].pc = "rollback"
  /\ task[1].changes = 1
  /\ task[2].kind = "udp"
  /\ task[2].pc = "commit"
  /\ task[2].changes = 2
  /\ task[1].dbT # task[2].dbT

\* The handler of the task's current request has ended.
RequestOver(s) == s.pc \in {"ended", "t_size", "t_data"} /\ s.calls # <<>>

\* transaction_start returned a handle and no commit succeeded before
\* position i of the call log.
InWindow(s, i) ==
  /\ i > 1
  /\ s.calls[1].op = "transaction_start"
  /\ s.calls[1].res = "ok"
  /\ \A j \in 1..(i - 1) :
       ~(s.calls[j].op = "transaction_commit" /\ s.calls[j].res = "ok")

\* After position i of the log the handle was rolled back, the rollback ran
\* to its end, and no commit was called.
RolledBackAfter(s, i) ==
  /\ \E j \in (i + 1)..Len(s.calls) :
       s.calls[j] = NCall("transaction_rollback", s.calls[1].h, "ok")
  /\ \A j \in (i + 1)..Len(s.calls) : s.calls[j].op # "transaction_commit"

\* C30 as stated: a request that was cancelled, or whose transport went
\* away, at any point after transaction_start returned a handle and before
\* commit succeeded has, when its handler ends, rolled the handle back, and
\* has not committed afterwards.
C30_Original ==
  \A t \in Tasks :
    LET s == task[t]
    IN RequestOver(s) =>
         /\ \A i \in 1..Len(s.calls) :
              (s.calls[i].res = "cancelled" /\ InWindow(s, i))
                => RolledBackAfter(s, i)
         /\ (s.gone /\ s.goneAt >= 1 /\ InWindow(s, s.goneAt + 1))
              => RolledBackAfter(s, s.goneAt)

\* The part of the statement about a transport that goes away.
C30_TransportLoss ==
  \A t \in Tasks :
    LET s == task[t]
    IN (RequestOver(s) /\ s.gone /\ s.goneAt >= 1 /\ InWindow(s, s.goneAt + 1))
         => RolledBackAfter(s, s.goneAt)

\* What does hold: when a task is cancelled while it awaits an op,
\* notify_changed or transaction_commit of a transaction that has a handle,
\* the next backend call is transaction_rollback on that handle; with no
\* further cancellation it runs to its end before the handler ends, and no
\* commit follows.
C30_CancelRollback ==
  \A t \in Tasks :
    LET s == task[t]
    IN \A i \in 1..Len(s.calls) :
         (/\ s.calls[i].res = "cancelled"
          /\ s.calls[i].op \in Mutations \cup {"notify_changed", "transaction_commit"}
          /\ InWindow(s, i))
           => /\ Len(s.calls) = i => s.pc = "rollback"
              /\ Len(s.calls) > i =>
                   /\ Len(s.calls) = i + 1
                   /\ s.calls[i + 1] = NCall("transaction_rollback", s.calls[1].h, "ok")
              /\ RequestOver(s) => Len(s.calls) = i + 1
              /\ \A j \in (i + 1)..Len(s.calls) : s.calls[j].op # "transaction_commit"

\* A datagram task was cancelled while it awaited transaction_commit; it has
\* answered SERVFAIL, rolled its handle back and ended.
C30_Witness ==
  LET s == task[1]
  IN /\ s.kind = "udp"
     /\ s.fin = "done"
     /\ Len(s.calls) = 6
     /\ s.calls[5] = NCall("transaction_commit", s.calls[1].h, "cancelled")
     /\ s.calls[6] = NCall("transaction_rollback", s.calls[1].h, "ok")
     /\ s.out = <<ResponseWire(s.data, SERVFAIL)>>

\* --------------------------------------------------- bounded waiting
\* C31: every request is answered in the end, even if a backend call never
\* returns: a message handed to its handler leads to its response.
C31_BoundedWaiting ==
  \A t \in Tasks : (task[t].pc = "keys") ~> Answered(task[t])

\* What the code does give: a request none of whose backend calls hangs is
\* answered; its handler is never left without a step to take.
C31_AnsweredUnlessHung ==
  \A t \in Tasks :
    (task[t].pc = "keys") ~> (Answered(task[t]) \/ task[t].pc = "hung")

\* ------------------------------------------------------ rollback failure
\* Backend.update has left its finally clause after a rollback that failed:
\* transaction_rollback returned false or raised.
RollbackFailedAt(k) ==
  /\ pc = "e_done"
  /\ k \in 1..Len(calls)
  /\ calls[k].op = "transaction_rollback"
  /\ calls[k].res \in {"fail", "raise"}

\* The failure of the request itself, as the log before the rollback shows
\* it: the exception a backend call raised, or Exception('Internal Error')
\* after an op, a notify or a commit that returned false.
OriginalErrors(k) ==
  IF k > 1 /\ calls[k - 1].res = "raise" THEN BackendRaises ELSE {"Exception"}

\* C32: when a request fails and its rollback fails too, by returning false
\* or by raising, Backend.update still raises the request's own error to its
\* caller.
C32_NoMasking ==
  \A k \in 1..Len(calls) :
    RollbackFailedAt(k) => (result = "raised" /\ error \in OriginalErrors(k))

\* What the code does give: a rollback that returns false changes nothing of
\* the outcome, and no failed rollback turns the request into a success.
C32_FalseRollback ==
  \A k \in 1..Len(calls) :
    RollbackFailedAt(k) =>
      /\ result = "raised"
      /\ calls[k].res = "fail" => error \in OriginalErrors(k)

\* ------------------------------------------------------ the mock backend
\* The last call of the mock backend, if it was delete_all_rrsets.
LastDeleteAll ==
  /\ calls # <<>>
  /\ calls[Len(calls)].op = "delete_all_rrsets"

\* C33: after delete_all_rrsets(zone, name) of the mock backend no record at
\* name remains, and the records at other names are those of before.
C33_DeleteAll ==
  LastDeleteAll =>
    LET n == calls[Len(calls)].name
    IN /\ {rr \in db : rr.name = n} = {}
       /\ {rr \in db : rr.name # n} = {rr \in before : rr.name # n}

\* What the mock backend does: it keeps the records at name and drops all
\* the others.
C33_KeepsNamed ==
  LastDeleteAll =>
    LET n == calls[Len(calls)].name
    IN db = {rr \in before : rr.name = n}

\* ------------------------------------------------------- empty requests
\* The request is an update with an empty op sequence: a DNS UPDATE with an
\* empty update section, or an HTTP update whose "updates" is the empty list
\* (the same branch of _do_updates takes a missing "updates" and one that is
\* no list).
EmptyRequest ==
  \/ front = "dns" /\ msg.opcode = "UPDATE" /\ msg.update = <<>>
  \/ front = "http" /\ msg.updates = <<>>

\* The calls that execute a request: transaction_start, the mutations,
\* commit and rollback.
ExecCalls ==
  {k \in 1..Len(calls) :
     calls[k].op \in Mutations \cup
       {"transaction_start", "transaction_commit", "transaction_rollback"}}

\* C34: a request whose op sequence is empty is never executed: no front-end
\* calls transaction_start, a mutation, commit or rollback for it, and HTTP
\* answers an authorized one with 400.
C34_NonEmpty ==
  EmptyRequest =>
    /\ ExecCalls = {}
    /\ (pc = "done" /\ front = "http" /\ UpdateAuth(msg) = "ok") => resp.code = "400"

\* What the code does give: the HTTP front-end never executes an empty
\* request and answers an authorized one with 400; the DNS front-end never
\* calls a mutation or a commit for one, and never answers it NOERROR.
C34_HttpNonEmpty ==
  EmptyRequest =>
    /\ front = "http" => ExecCalls = {}
    /\ (pc = "done" /\ front = "http" /\ UpdateAuth(msg) = "ok") => resp.code = "400"
    /\ \A k \in ExecCalls : calls[k].op \in {"transaction_start", "transaction_rollback"}
    /\ resp.code # "NOERROR"

\* ----------------------------------------------------- name normalization
\* The normalized form of a name: lower case, no trailing dot.
Normalized(n) ==
  IF n # <<>> /\ n[Len(n)] = "." THEN Lower(SubSeq(n, 1, Len(n) - 1)) ELSE Lower(n)

\* The request that differs from msg only in that its zone name and owner
\* names are normalized.
NormalizedTwin ==
  IF front = "dns"
  THEN [msg EXCEPT !.zone = Normalized(@),
                   !.update = [k \in 1..Len(@) |-> [@[k] EXCEPT !.name = Normalized(@)]]]
  ELSE [msg EXCEPT !.zone = Normalized(@),
                   !.updates = [k \in 1..Len(@) |->
                                  [@[k] EXCEPT !.dns_name = Normalized(@)]]]

UpdateRequest ==
  \/ front = "dns" /\ msg.opcode = "UPDATE" /\ msg.sig = "good"
  \/ front = "http"

\* C35: a request gets the outcome of the request that differs from it only
\* in the letter case or the trailing dot of its zone name and owner names:
\* the same authorization decision, the same result of validation, and
\* backend calls that carry the normalized names, when it has been answered.
C35_Normalization ==
  (UpdateRequest /\ pc = "done") =>
    /\ front = "dns" =>
         /\ DnsAuthorized(msg) = DnsAuthorized(NormalizedTwin)
         /\ DnsValidate(msg.zone, msg.update)
              = DnsValidate(NormalizedTwin.zone, NormalizedTwin.update)
    /\ front = "http" =>
         /\ UpdateAuth(msg) = UpdateAuth(NormalizedTwin)
         /\ DoUpdatesCheck(msg.zone, msg.updates)
              = DoUpdatesCheck(NormalizedTwin.zone, NormalizedTwin.updates)
    /\ \A k \in 1..Len(calls) :
         /\ calls[k].zone = Normalized(msg.zone)
         /\ calls[k].name = Normalized(calls[k].name)

\* What the code does give: every backend call carries the zone in lower
\* case, and every call of the DNS front-end the owner name in lower case.
C35_LoweredCalls ==
  UpdateRequest =>
    \A k \in 1..Len(calls) :
      /\ calls[k].zone = Lower(calls[k].zone)
      /\ front = "dns" => calls[k].name = Lower(calls[k].name)

\* ------------------------------------------- no rollback after a commit
\* A DNS task called transaction_rollback on a handle whose commit had
\* returned true.
RollbackAfterCommit(s) ==
  \E i, j \in 1..Len(s.calls) :
    /\ i < j
    /\ s.calls[i].op = "transaction_commit"
    /\ s.calls[i].res = "ok"
    /\ s.calls[j].op = "transaction_rollback"
    /\ s.calls[j].h = s.calls[i].h

\* C36: handle_nsupdate never calls transaction_rollback on a transaction
\* whose commit has returned true, also when its generator is closed or its
\* consumer fails while the NOERROR response is delivered.
C36_NoRollbackAfterCommit ==
  \A t \in Tasks :
    task[t].kind \in {"tcp", "udp"} => ~RollbackAfterCommit(task[t])

\* ------------------------------------------------ one response per message
\* handle_nsupdate alone: one DNS message after the other, every outcome of
\* every backend call.
NextDns ==
  \/ DnsReceive
  \/ DnsDecode
  \/ DnsQuery
  \/ DnsValidateStep
  \/ DnsStart
  \/ DnsApply
  \/ DnsNotify
  \/ DnsCommit
  \/ DnsResume
  \/ DnsFail
  \/ DnsFinally
  \/ Release

SpecDns == Init /\ [][NextDns]_<<vars, nvars>>

DnsLacksAuth(m) ==
  /\ m.kind = "dns"
  /\ m.opcode = "UPDATE"
  /\ (FromWire(m, AllKeys) # "ok" \/ ~DnsAuthorized(m))

\* A /v1/update request with a wrong key: the key it presents is a string
\* and the zone has no keys or the key is none of them.
HttpWrongKey(m) ==
  /\ m.kind = "http"
  /\ SelectAuth(m) # NonString
  /\ UpdateAuth(m) = "PermissionError"

\* C38: a request that fails authentication is answered REFUSED (DNS) or 403
\* (HTTP) whatever its prerequisite and update sections or its updates hold,
\* and neither is_in_zone, nor validation, nor transaction_start is reached.
C38_AuthFirst ==
  (pc = "done" /\ (DnsLacksAuth(msg) \/ HttpWrongKey(msg))) =>
    /\ resp.code = (IF front = "dns" THEN "REFUSED" ELSE "403")
    /\ calls = <<>>
    /\ updates = <<>>
    /\ jupd = <<>>

\* What the code does give: the answer of a request that fails
\* authentication is computed from its credentials and its zone alone (the
\* RCODE or status of the exception the authentication step ends with), and
\* no backend call, validation or conversion of its updates takes place.
C38_ContentsIgnored ==
  /\ (pc = "done" /\ DnsLacksAuth(msg)) =>
        /\ resp = Answer(ExceptRcode(IF FromWire(msg, AllKeys) = "ok"
                                      THEN "UnknownTSIGKey"
                                      ELSE FromWire(msg, AllKeys)), "")
        /\ calls = <<>>
        /\ updates = <<>>
  /\ (pc = "done" /\ msg.kind = "http" /\ UpdateAuth(msg) # "ok") =>
        /\ resp = Answer(UpdateStatus(UpdateAuth(msg)), UpdateBody(UpdateAuth(msg)))
        /\ calls = <<>>
        /\ jupd = <<>>
  /\ (pc = "done" /\ msg.kind = "simple" /\ SimpleAuth(msg) # "ok") =>
        /\ resp.code = SimpleStatus(SimpleAuth(msg), FALSE)
        /\ calls = <<>>
        /\ jupd = <<>>

\* ------------------------------------------------- the SQLite backend
\* SQLiteBackend holds one sqlite3 connection, `_db`. A statement executed
\* on the connection is pending until `_db.commit()`; `persisted` is what the
\* database file holds, `pending` what the connection has executed and not
\* committed. A SQLiteTransaction is a handle on the backend: `backend` is
\* TRUE while its attribute `backend` is the backend object and FALSE once it
\* is None; `sent` are the statements its sql() took without raising, `ended`
\* how it was ended, `atEnd` what it had taken by then.
MaxHandles == 2

MaxSqliteCalls == 5

SqlStatements == {"q1", "q2"}

NoSqlite == [persisted |-> {}, pending |-> {}, handles |-> <<>>, raised |-> "none", n |-> 0]

\* SQLiteTransaction.__init__
SQLiteTransaction == [backend |-> TRUE, sent |-> {}, ended |-> "none", atEnd |-> {}]

\* The body of SQLiteBackend.sql, `self._db.execute(query, kwargs)`: the
\* statement is executed on the connection and is pending.
backend_sql(pending, q) == pending \cup {q}

\* SQLiteTransaction.commit and rollback: `self.backend = None` in both;
\* only commit touches the connection.
EndHandle(h, how) == [h EXCEPT !.backend = FALSE, !.ended = how, !.atEnd = h.sent]

\* `if self.nested:` in SQLiteBackend.start_transaction: no class of the
\* hierarchy defines `nested`, the attribute lookup raises AttributeError and
\* no handle is returned.
SqliteStart ==
  /\ store.n < MaxSqliteCalls
  /\ store' = [store EXCEPT !.raised = "AttributeError", !.n = @ + 1]
  /\ UNCHANGED <<vars, task, yields>>

\* SQLiteTransaction(backend): the handle made by its constructor.
SqliteNew ==
  /\ store.n < MaxSqliteCalls
  /\ Len(store.handles) < MaxHandles
  /\ store' = [store EXCEPT !.handles = Append(@, SQLiteTransaction), !.raised = "none",
                            !.n = @ + 1]
  /\ UNCHANGED <<vars, task, yields>>

\* `await transaction.sql(query, ...)`: `return self.backend.sql(query,
\* **kwargs)` raises AttributeError when `backend` is None, and otherwise
\* returns the coroutine of SQLiteBackend.sql without running it. The
\* methods of SQLBackend drop what they are returned (awaited is FALSE) and
\* the statement is never executed; a caller that awaits the coroutine it is
\* returned (awaited is TRUE) runs the body of SQLiteBackend.sql.
SqliteSql ==
  /\ store.n < MaxSqliteCalls
  /\ \E h \in 1..Len(store.handles), q \in SqlStatements, awaited \in BOOLEAN :
       IF store.handles[h].backend
       THEN store' = [store EXCEPT !.handles[h].sent = @ \cup {q},
                                   !.pending = IF awaited THEN backend_sql(@, q) ELSE @,
                                   !.raised = "none", !.n = @ + 1]
       ELSE store' = [store EXCEPT !.raised = "AttributeError", !.n = @ + 1]
  /\ UNCHANGED <<vars, task, yields>>

\* `self.backend._db.commit(); self.backend = None; return True`
SqliteCommit ==
  /\ store.n < MaxSqliteCalls
  /\ \E h \in 1..Len(store.handles) :
       IF store.handles[h].backend
       THEN store' = [store EXCEPT !.persisted = @ \cup store.pending,
                                   !.pending = {},
                                   !.handles[h] = EndHandle(@, "commit"),
                                   !.raised = "none", !.n = @ + 1]
       ELSE store' = [store EXCEPT !.raised = "AttributeError", !.n = @ + 1]
  /\ UNCHANGED <<vars, task, yields>>

\* `self.backend = None; return True`: the connection is not touched, and a
\* handle that has ended is ended again without an exception.
SqliteRollback ==
  /\ store.n < MaxSqliteCalls
  /\ \E h \in 1..Len(store.handles) :
       store' = [store EXCEPT !.handles[h] =
                                IF @.backend THEN EndHandle(@, "rollback") ELSE @,
                              !.raised = "none", !.n = @ + 1]
  /\ UNCHANGED <<vars, task, yields>>

\* A new connection on an empty database, no handle yet.
InitSqlite ==
  /\ front = "none"
  /\ pc = "idle"
  /\ msg = NoMsg
  /\ zone = <<>>
  /\ jupd = <<>>
  /\ updates = <<>>
  /\ idx = 0
  /\ dbT = Unbound
  /\ changes = 0
  /\ ok = TRUE
  /\ error = "none"
  /\ result = "none"
  /\ resp = NoResp
  /\ db = {}
  /\ snap = {}
  /\ before = {}
  /\ calls = <<>>
  /\ nreq = 0
  /\ task = <<>>
  /\ store = NoSqlite
  /\ yields = 0

NextSqlite ==
  \/ SqliteStart
  \/ SqliteNew
  \/ SqliteSql
  \/ SqliteCommit
  \/ SqliteRollback

SpecSqlite == InitSqlite /\ [][NextSqlite]_<<vars, nvars>>

\* The statements taken by the handles that ended with `how`.
StatementsOf(how) ==
  UNION {store.handles[h].sent :
           h \in {k \in 1..Len(store.handles) : store.handles[k].ended = how}}

\* C39: no statement of a rolled-back handle is persisted unless a committed
\* handle executed it too, once no handle is open what the database holds is
\* exactly the statements of the committed handles, and a handle takes no
\* statement after its commit or rollback.
C39_RollbackDiscards ==
  /\ StatementsOf("rollback") \cap store.persisted \subseteq StatementsOf("commit")
  /\ (\A h \in 1..Len(store.handles) : store.handles[h].ended # "none")
        => store.persisted = StatementsOf("commit")
  /\ \A h \in 1..Len(store.handles) :
       store.handles[h].ended # "none" => store.handles[h].sent = store.handles[h].atEnd

\* What the code does give: a handle that has ended takes no statement, and
\* nothing is persisted that no handle was given.
C39_EndedHandles ==
  /\ \A h \in 1..Len(store.handles) :
       store.handles[h].ended # "none" => store.handles[h].sent = store.handles[h].atEnd
  /\ store.persisted \subseteq UNION {store.handles[h].sent : h \in 1..Len(store.handles)}

\* A statement that only rolled-back handles were given is in the database:
\* the rollback left it pending on the connection and the commit of another
\* handle persisted it.
C39_RolledBackPersisted ==
  (StatementsOf("rollback") \cap store.persisted) \ StatementsOf("commit") # {}

\* A committed handle's statement is not in the database although every
\* handle has ended.
C39_CommittedLost ==
  /\ \A h \in 1..Len(store.handles) : store.handles[h].ended # "none"
  /\ StatementsOf("commit") \ store.persisted # {}

\* ------------------------------------------------------------ unknown ops
\* An authorized /v1/update request one of whose update objects has an op
\* that is neither "add" nor "delete", or has none.
UnknownOp ==
  /\ front = "http"
  /\ UpdateAuth(msg) = "ok"
  /\ \E k \in 1..Len(msg.updates) : msg.updates[k].op \notin {"add", "delete"}

\* C40: a request with an update object whose op is neither "add" nor
\* "delete", or is missing, is answered 400; no transaction is started and
\* no backend mutation is called for it.
C40_UnknownOps ==
  UnknownOp =>
    /\ NoBackendWork
    /\ pc = "done" => resp.code = "400"

\* What the code does give: an update object without the member "op" makes
\* the request fail with 400 before any backend work.
C40_MissingOp ==
  (/\ front = "http"
   /\ UpdateAuth(msg) = "ok"
   /\ \E k \in 1..Len(msg.updates) : msg.updates[k].op = Absent)
    => /\ NoBackendWork
       /\ pc = "done" => resp.code = "400"

====
